---- MODULE Spec2Model ----
(***************************************************************************)
(* Well-Architected-Interviewer: the report documents of an assessment,    *)
(* the commands of scripts/wai.py that read and rewrite them, and the      *)
(* Kanbus calls that sync-kanbus requests.                                 *)
(*                                                                         *)
(* Text is a sequence of tokens.  A token is either one of the characters  *)
(* the regular expressions of wai.py look at (newline, space, no-break     *)
(* space, colon), the heading marker "##", or a word: a run of characters  *)
(* that holds no whitespace and no colon (a field name such as             *)
(* "Human Questions" is one word: it only ever stands at the start of a    *)
(* line, before a colon).  The empty Python string is the empty sequence.  *)
(*                                                                         *)
(* A value that a definition uses more than once is the parameter of a     *)
(* local operator, so that it is written, and worked out, once.            *)
(***************************************************************************)
EXTENDS Naturals, Sequences, FiniteSets, TLC

NL == "\n"
SP == " "
NBSP == "NBSP"      \* the no-break space, U+00A0
ACIRC == "A^"       \* the A-circumflex, U+00C2, that the script replaces with it
BSN == "\\n"        \* a backslash and the letter n, two characters

Min(S) == CHOOSE m \in S : \A n \in S : m <= n
Max(S) == CHOOSE m \in S : \A n \in S : n <= m

(* Python's \s and str.strip() whitespace, as far as the alphabet goes. *)
IsSpace(c) == c \in {SP, NL, NBSP}

(* "^" under re.MULTILINE: position i starts a line of s. *)
AtLineStart(s, i) == i = 1 \/ s[i - 1] = NL

(* "$" under re.MULTILINE after ".*": the end of the line holding        *)
(* position i, as the index of its newline, or Len(s) + 1 on the last    *)
(* line.                                                                  *)
LineEnd(s, i) ==
  LET End(nls) == IF nls = {} THEN Len(s) + 1 ELSE Min(nls)
  IN  End({j \in i..Len(s) : s[j] = NL})

(* str.strip() *)
Strip(s) ==
  LET Cut(ink) == IF ink = {} THEN << >> ELSE SubSeq(s, Min(ink), Max(ink))
  IN  Cut({j \in 1..Len(s) : ~IsSpace(s[j])})

(* str.rstrip() *)
Rstrip(s) ==
  LET Cut(ink) == IF ink = {} THEN << >> ELSE SubSeq(s, 1, Max(ink))
  IN  Cut({j \in 1..Len(s) : ~IsSpace(s[j])})

(* s.startswith(p) *)
StartsWith(s, p) == Len(p) <= Len(s) /\ SubSeq(s, 1, Len(p)) = p

(* s.find(sub, from): the first index >= from where sub occurs, 0 for    *)
(* Python's -1.  Indices are 1-based.                                     *)
Find(s, sub, from) ==
  LET First(hits) == IF hits = {} THEN 0 ELSE Min(hits)
  IN  First({i \in from..(Len(s) + 1 - Len(sub)) :
               s[i] = sub[1] /\ SubSeq(s, i, i + Len(sub) - 1) = sub})

(* str.replace(old, new): every non-overlapping occurrence, left to      *)
(* right; old is never empty here.                                        *)
RECURSIVE ReplaceFrom(_, _, _, _)
ReplaceFrom(s, old, new, from) ==
  LET At(i) == IF i = 0 THEN SubSeq(s, from, Len(s))
               ELSE SubSeq(s, from, i - 1) \o new
                      \o ReplaceFrom(s, old, new, i + Len(old))
  IN  At(Find(s, old, from))

Replace(s, old, new) == ReplaceFrom(s, old, new, 1)

(* str.replace(old, new, 1): the first occurrence only. *)
ReplaceFirst(s, old, new) ==
  LET At(i) == IF i = 0 THEN s
               ELSE SubSeq(s, 1, i - 1) \o new
                      \o SubSeq(s, i + Len(old), Len(s))
  IN  At(Find(s, old, 1))

(* text.replace(NBSP, " ").replace(ACIRC, " ") *)
ReplaceNbsp(s) ==
  [i \in 1..Len(s) |-> IF s[i] \in {NBSP, ACIRC} THEN SP ELSE s[i]]

(* re.sub(r"\s+", " ", s): every whitespace run becomes one space. *)
CollapseSpace(s) ==
  LET Keep(ix) == [k \in 1..Len(ix) |-> IF IsSpace(s[ix[k]]) THEN SP
                                        ELSE s[ix[k]]]
  IN  Keep(SelectSeq([i \in 1..Len(s) |-> i],
                     LAMBDA i : ~(IsSpace(s[i]) /\ i > 1 /\ IsSpace(s[i - 1]))))

(* What pattern.sub and re.sub make of a replacement given as a string: *)
(* its escapes are processed, a backslash with n becomes a newline.  It  *)
(* is the one escape of the alphabet.                                     *)
Expand(repl) == [i \in 1..Len(repl) |-> IF repl[i] = BSN THEN NL ELSE repl[i]]

(* _normalize_text: no-break spaces to spaces, every whitespace run to   *)
(* one space, ends stripped.                                              *)
_normalize_text(text) == Strip(CollapseSpace(ReplaceNbsp(text)))

(* The number of characters a token stands for. *)
CharLen(tok) == IF tok \in {NL, SP, NBSP, ACIRC, ":"} THEN 1 ELSE Len(tok)

RECURSIVE TextLen(_)
TextLen(s) == IF s = << >> THEN 0 ELSE CharLen(Head(s)) + TextLen(Tail(s))

TitleMax == 80
TitleKeep == 77

(* title[:n] for a cut that falls between two tokens: the longest prefix *)
(* of at most n characters.                                               *)
TakeChars(s, n) ==
  SubSeq(s, 1, Max({k \in 0..Len(s) : TextLen(SubSeq(s, 1, k)) <= n}))

_short_title(question) ==
  LET Cut(title) == IF TextLen(title) > TitleMax
                    THEN Rstrip(TakeChars(title, TitleKeep)) \o <<"...">>
                    ELSE title
  IN  Cut(Strip(question))

(***************************************************************************)
(* Field codec                                                             *)
(***************************************************************************)

(* The starts of the lines "<field>:..." of block, the matches of        *)
(* ^<field>: under re.MULTILINE.                                          *)
FieldLines(block, field) ==
  {i \in 1..(Len(block) - 1) :
     block[i] = field /\ block[i + 1] = ":" /\ AtLineStart(block, i)}

(* _parse_field: the first such line, its value stripped; "" if none. *)
_parse_field(block, field) ==
  LET Line(i) == Strip(SubSeq(block, i + 2, LineEnd(block, i) - 1))
      First(at) == IF at = {} THEN << >> ELSE Line(Min(at))
  IN  First(FieldLines(block, field))

(* pattern.sub(repl, block) for ^<field>:.*$ : every such line, whole,   *)
(* becomes repl with its escapes processed.                               *)
RECURSIVE SubFieldFrom(_, _, _, _)
SubFieldFrom(block, field, repl, from) ==
  LET Line(i) == SubSeq(block, from, i - 1) \o Expand(repl)
                   \o SubFieldFrom(block, field, repl, LineEnd(block, i))
      Next_(at) == IF at = {} THEN SubSeq(block, from, Len(block))
                   ELSE Line(Min(at))
  IN  Next_({i \in from..(Len(block) - 1) :
               /\ block[i] = field
               /\ block[i + 1] = ":"
               /\ AtLineStart(block, i)})

(* _replace_field: "<field>: <value>" on every line of the field; the    *)
(* block itself when it has no such line.                                 *)
_replace_field(block, field, value) ==
  IF FieldLines(block, field) # {}
  THEN SubFieldFrom(block, field, <<field, ":", SP>> \o value, 1)
  ELSE block

(***************************************************************************)
(* Document index                                                          *)
(***************************************************************************)

FirstColon(s, from) ==
  LET First(cs) == IF cs = {} THEN 0 ELSE Min(cs)
  IN  First({j \in from..Len(s) : s[j] = ":"})

(* A match of the record pattern, ^## id: title$ with id = [^:]+,        *)
(* begins at i: "## " at a line start, then a non-empty run free of      *)
(* colons (a newline is no colon: the run may leave the line), then ": " *)
(* and the rest of that line.                                             *)
HeadingAt(s, i) ==
  /\ s[i] = "##"
  /\ AtLineStart(s, i)
  /\ i < Len(s)
  /\ s[i + 1] = SP
  /\ LET Colon(c) == c > i + 2 /\ c < Len(s) /\ s[c + 1] = SP
     IN  Colon(FirstColon(s, i + 2))

(* match.end() of the match that begins at i. *)
MatchEnd(s, i) == LineEnd(s, FirstColon(s, i + 2) + 1)

(* pattern.finditer(content): the starts of the successive matches. *)
RECURSIVE HeadingMatches(_, _)
HeadingMatches(s, from) ==
  LET Next_(at) == IF at = {} THEN << >>
                   ELSE <<Min(at)>> \o HeadingMatches(s, MatchEnd(s, Min(at)))
  IN  Next_({i \in from..Len(s) : HeadingAt(s, i)})

(* The end (exclusive) of the span of the match at i:                    *)
(* content.find("\n## ", match.end()), or len(content).                  *)
SpanEnd(s, i) ==
  LET End(f) == IF f = 0 THEN Len(s) + 1 ELSE f
  IN  End(Find(s, <<NL, "##", SP>>, MatchEnd(s, i)))

(* The spans [start, end) of the records of content, in order. *)
ReportSpans(content) ==
  LET Spans(ms) == [k \in 1..Len(ms) |->
                      [start |-> ms[k], end |-> SpanEnd(content, ms[k])]]
  IN  Spans(HeadingMatches(content, 1))

(* header[3:] of a block: its first line without the leading "## ". *)
HeaderRest(block) == SubSeq(block, 3, LineEnd(block, 1) - 1)

(* header[3:].split(": ", 1) yields two parts; otherwise the unpacking   *)
(* raises ValueError.                                                     *)
HeaderSplits(block) == Find(HeaderRest(block), <<":", SP>>, 1) # 0

(* _parse_question_block, for a block whose header splits. *)
_parse_question_block(block) ==
  LET Entry(rest, k) ==
        [question |-> _parse_field(block, "Question"),
         title |-> Strip(SubSeq(rest, k + 2, Len(rest))),
         block |-> block,
         id |-> Strip(SubSeq(rest, 1, k - 1)),
         status |-> _parse_field(block, "Status"),
         confidence |-> _parse_field(block, "Confidence"),
         kanbus |-> _parse_field(block, "Kanbus Task")]
      Split(rest) == Entry(rest, Find(rest, <<":", SP>>, 1))
  IN  Split(HeaderRest(block))

ReportBlocks(content) ==
  LET Blocks(sp) == [k \in 1..Len(sp) |->
                       SubSeq(content, sp[k].start, sp[k].end - 1)]
  IN  Blocks(ReportSpans(content))

(* Some block of a report has a header that does not split. *)
SomeRaises(bs) == \E k \in 1..Len(bs) : ~HeaderSplits(bs[k])

(* _parse_questions_from_report raises. *)
ParseRaises(content) == SomeRaises(ReportBlocks(content))

(* The entries of the blocks of a report. *)
Entries(bs) == [k \in 1..Len(bs) |-> _parse_question_block(bs[k])]

(* _parse_questions_from_report, when it does not raise. *)
_parse_questions_from_report(content) == Entries(ReportBlocks(content))

(***************************************************************************)
(* Heading rewrites of apply-evidence                                      *)
(***************************************************************************)

(* The first index >= j of s that holds no whitespace, Len(s) + 1 if none *)
SpaceEnd(s, j) ==
  LET First(ink) == IF ink = {} THEN Len(s) + 1 ELSE Min(ink)
  IN  First({k \in j..Len(s) : ~IsSpace(s[k])})

(* ^##\s+[^:]+: matches at i: "##" at a line start, whitespace, and at   *)
(* least one more character before the first colon.                       *)
LooseHeadingAt(s, i) ==
  /\ s[i] = "##"
  /\ AtLineStart(s, i)
  /\ i < Len(s)
  /\ IsSpace(s[i + 1])
  /\ FirstColon(s, i + 1) >= i + 3

(* re.sub(r"^##\s+[^:]+:.*$", repl, block, flags=re.MULTILINE) *)
RECURSIVE SubHeadingFrom(_, _, _)
SubHeadingFrom(s, repl, from) ==
  LET Line(i) == SubSeq(s, from, i - 1) \o Expand(repl)
                   \o SubHeadingFrom(s, repl,
                                     LineEnd(s, FirstColon(s, i + 1) + 1))
      Next_(at) == IF at = {} THEN SubSeq(s, from, Len(s)) ELSE Line(Min(at))
  IN  Next_({i \in from..Len(s) : LooseHeadingAt(s, i)})

(* ^##\s+([^:]+):\s+ matches at i: as above, and whitespace follows the  *)
(* colon.                                                                 *)
SpacedHeadingAt(s, i) ==
  /\ LooseHeadingAt(s, i)
  /\ LET Colon(c) == c < Len(s) /\ IsSpace(s[c + 1])
     IN  Colon(FirstColon(s, i + 1))

(* re.sub(r"^##\s+([^:]+):\s+", r"## \1: ", s, flags=re.MULTILINE): the  *)
(* whitespace after "##" and after the colon (newlines too) becomes one  *)
(* space each; group 1 is what stands between them, and keeps one        *)
(* whitespace character when nothing else is there.                       *)
RECURSIVE NormHeadingFrom(_, _)
NormHeadingFrom(s, from) ==
  LET Group(i, c, w) ==
        SubSeq(s, from, i - 1)
          \o <<"##", SP>> \o SubSeq(s, IF w < c THEN w ELSE c - 1, c - 1)
          \o <<":", SP>>
          \o NormHeadingFrom(s, SpaceEnd(s, c + 1))
      Colon(i, c) == Group(i, c, SpaceEnd(s, i + 1))
      Match(i) == Colon(i, FirstColon(s, i + 1))
      Next_(at) == IF at = {} THEN SubSeq(s, from, Len(s)) ELSE Match(Min(at))
  IN  Next_({i \in from..Len(s) : SpacedHeadingAt(s, i)})

NormHeading(s) == NormHeadingFrom(s, 1)

(***************************************************************************)
(* The assessment: pillars, question inventory, report documents           *)
(***************************************************************************)

NumPillars == 2

AllPillars ==
  <<"operational-excellence", "security", "reliability",
    "performance-efficiency", "cost-optimization", "sustainability">>

(* PILLARS, cut to its first NumPillars entries. *)
PILLARS == SubSeq(AllPillars, 1, NumPillars)

PillarSet == {PILLARS[k] : k \in 1..Len(PILLARS)}

STATUS_VALUES == {"unanswered", "partial", "answered", "needs_human"}
CONFIDENCE_VALUES == {"low", "medium", "high", "n/a"}

(* pillar.replace("-", " ").title() *)
PillarTitle(pillar) ==
  CASE pillar = "operational-excellence" -> <<"Operational", SP, "Excellence">>
    [] pillar = "security" -> <<"Security">>
    [] pillar = "reliability" -> <<"Reliability">>
    [] pillar = "performance-efficiency" -> <<"Performance", SP, "Efficiency">>
    [] pillar = "cost-optimization" -> <<"Cost", SP, "Optimization">>
    [] pillar = "sustainability" -> <<"Sustainability">>

(* ATTRIBUTION_TEMPLATE with PILLAR_URLS[pillar]: the licence sentence   *)
(* is one word here, "Source: https://..." keeps its colons.              *)
_attribution_block(pillar) ==
  <<"AWS-WAF-CC-BY-SA-4.0.", SP, "Source", ":", SP, "https", ":", pillar>>

_pillar_header(pillar) ==
  <<"#", SP>> \o PillarTitle(pillar) \o <<NL, NL>>
    \o <<">", SP, "Attribution", ":", SP>> \o _attribution_block(pillar)
    \o <<NL, NL>>

_pillar_footer(pillar) ==
  <<NL, ">", SP, "Attribution", ":", SP>> \o _attribution_block(pillar)
    \o <<NL>>

(* _question_block: q is an inventory entry, now the timestamp. *)
_question_block(q, now) ==
  LET Block(question_text) ==
        <<"##", SP, q.question_id, ":", SP>> \o _short_title(question_text)
          \o <<NL>>
          \o <<"Question", ":", SP>> \o question_text \o <<NL>>
          \o <<"Status", ":", SP, "unanswered", NL>>
          \o <<"Confidence", ":", SP, "n/a", NL>>
          \o <<"Answer", ":", NL>>
          \o <<"Evidence", ":", NL>>
          \o <<"Human Questions", ":", NL>>
          \o <<"Kanbus Task", ":", SP, NL>>
          \o <<"Last Updated", ":", SP>> \o now \o <<NL, NL>>
  IN  Block(_normalize_text(q.question_text))

RECURSIVE PillarBlocks(_, _, _)
PillarBlocks(questions, pillar, now) ==
  IF questions = << >> THEN << >>
  ELSE (IF Head(questions).pillar = pillar
        THEN _question_block(Head(questions), now)
        ELSE << >>) \o PillarBlocks(Tail(questions), pillar, now)

(* _write_reports: the document written for each pillar. *)
_write_reports(questions, now) ==
  [p \in PillarSet |->
     _pillar_header(p) \o PillarBlocks(questions, p, now) \o _pillar_footer(p)]

(***************************************************************************)
(* Kanbus: issue ids and identity resolution                               *)
(***************************************************************************)

(* An issue id is text too: "kanbus-" and the number of the issue.  The  *)
(* full id of an issue goes on after its short id, to five hyphens.       *)
Digits == <<"0", "1", "2", "3", "4", "5", "6", "7", "8", "9">>

(* n < 100 in two decimal digits *)
Num2(n) == <<Digits[(n \div 10) + 1], Digits[(n % 10) + 1]>>

ShortId(n) == <<"kanbus", "-">> \o Num2(n)

FullTail == "f-0-0-0-0"

FullId(n) == ShortId(n) \o <<FullTail>>

(* issue_id.count("-") *)
RECURSIVE Hyphens(_)
Hyphens(id) ==
  IF id = << >> THEN 0
  ELSE (IF Head(id) = "-" THEN 1 ELSE IF Head(id) = FullTail THEN 4 ELSE 0)
         + Hyphens(Tail(id))

FullIdHyphens == 5

_is_full_id(issue_id) == Hyphens(issue_id) >= FullIdHyphens

(* LatestOf that takes the candidate created first. *)
EarliestOf(known, cands) ==
  CHOOSE k \in cands :
    \A j \in cands : known[k].created_at <= known[j].created_at

(* The entry of candidates that list.sort(key=created_at) puts last: the *)
(* latest created, and among equals the one latest in the listing.        *)
LatestOf(known, cands) ==
  CHOOSE k \in cands :
    \A j \in cands :
      \/ known[j].created_at < known[k].created_at
      \/ (known[j].created_at = known[k].created_at /\ j <= k)

(* _resolve_full_id with the issues given (the snapshot already read):   *)
(* title and parent filter only when given.                               *)
_resolve_full_id(short_id, title, parent, known) ==
  LET Pick(cands) == IF cands = {} THEN short_id
                     ELSE known[LatestOf(known, cands)].id
  IN  IF _is_full_id(short_id) THEN short_id
      ELSE Pick({k \in 1..Len(known) :
                   /\ StartsWith(known[k].id, short_id)
                   /\ (title # << >> => known[k].title = title)
                   /\ (parent # << >> => known[k].parent = parent)})

(* _create_kanbus_issue with Kanbus answering: the issue is added, its   *)
(* short id is read off the output and resolved against the snapshot     *)
(* (snapshot = FALSE: the snapshot call fails and the short id stays).    *)
_create_kanbus_issue(known, title, parent, snapshot) ==
  LET Made(now_known, short_id) ==
        [id |-> IF snapshot
                THEN _resolve_full_id(short_id, title, parent, now_known)
                ELSE short_id,
         issues |-> now_known]
      Create(n) ==
        Made(Append(known, [title |-> title, id |-> FullId(n),
                            created_at |-> n, parent |-> parent]),
             ShortId(n))
  IN  Create(Len(known) + 1)
(***************************************************************************)
(* State                                                                   *)
(***************************************************************************)

VARIABLES
  cached,     \* questions.json exists
  cache,      \* its "questions": entries [pillar, question_id, question_text]
  exists,     \* the pillars whose report <pillar>.md exists
  docs,       \* the text of each pillar's report
  before,     \* the text of each report before the last command or edit
  mapped,     \* kanbus-map.json exists
  kmap,       \* its content: [initiative, epics, tasks]
  scanned,    \* evidence.json exists
  evidence,   \* its "inventory": [languages, infra, ci]
  issues,     \* the issues Kanbus holds: [id, title, parent, created_at]
  calls,      \* the Kanbus calls the last sync-kanbus requested, in order
  held,       \* what a command holds between its read and its write of a report
  last,       \* the last command: its name, arguments and outcome
  steps       \* commands and edits so far; it is also what the clock reads

vars == <<cached, cache, exists, docs, before, mapped, kmap, scanned,
          evidence, issues, calls, held, last, steps>>

MaxSteps == 2

(* dt.datetime.now(dt.timezone.utc).isoformat(): the clock moves with   *)
(* the commands, every reading within one command gives the same text.    *)
Now == <<"T">> \o Num2(steps + 1)

(* The clock reading of an initialization that ran before the first step. *)
InitTime == <<"T">> \o Num2(0)

Assessment == "asmt"

NoArgs == [status |-> << >>, confidence |-> << >>, qid |-> << >>,
           answer |-> << >>]

(* Nothing is held: every command that reads a report has written it. *)
NoHeld == [k |-> 0, content |-> << >>, cmd |-> "none", args |-> NoArgs,
           updated |-> FALSE]

(* What a command leaves behind: err is "" when it returned normally,    *)
(* else the exception that ended it; out is what it printed.              *)
Outcome(cmd, err, args, out) ==
  [cmd |-> cmd, args |-> args, err |-> err, out |-> out]

EmptyMap == [initiative |-> << >>,
             epics |-> [p \in {} |-> << >>],
             tasks |-> [q \in {} |-> << >>]]

EmptyInventory == [languages |-> << >>, infra |-> << >>, ci |-> << >>]

(***************************************************************************)
(* Inputs                                                                  *)
(***************************************************************************)

LongWord ==
  "Lorem-ipsum-dolor-sit-amet-consectetur-adipiscing-elit-sed-do-eiusmod-tempor"

Q(pillar, id, text) ==
  [pillar |-> pillar, question_text |-> text, question_id |-> id]

(* The question inventories the fetched pages can yield: two questions   *)
(* of the first pillar (the second report then holds no record), or one  *)
(* question in each of two pillars, the second with a text that is cut.   *)
Inventories ==
  {<<Q(PILLARS[1], "OPS-1", <<"How", SP, "test?">>),
     Q(PILLARS[1], "OPS-2", <<"Why", NBSP, SP, "fail?">>)>>,
   <<Q(PILLARS[1], "OPS-1", <<"How", SP, "test?">>),
     Q(PILLARS[2], "SEC-1", <<LongWord, SP, "more?">>)>>}

(* What _detect_languages, _detect_infra and _detect_ci can find in the  *)
(* target directory.                                                      *)
Targets ==
  {EmptyInventory,
   [languages |-> <<".py", ".ts">>, infra |-> << >>,
    ci |-> <<"github-actions">>]}

KanbusModes == {"up", "nosnapshot", "down"}

(***************************************************************************)
(* fetch                                                                   *)
(***************************************************************************)

MaxFound == 2
MaxPages == 2

(* The (qid, qtext) pairs that lines 111-124 can take from the lines of  *)
(* a topic page: a line "OPS 1: ..." yields its id, a line that ends     *)
(* with "?" yields no id.                                                 *)
Found ==
  {[qid |-> "OPS-1", qtext |-> <<"How", SP, "test?">>],
   [qid |-> "OPS-2", qtext |-> <<"Why", SP, "fail?">>],
   [qid |-> "", qtext |-> <<"How", SP, "do", SP, "you", SP, "test?">>],
   [qid |-> "", qtext |-> <<"how", SP, "do", SP, "you", SP, "test?">>]}

(* The topic pages of the pillars: one to MaxPages pages of the first    *)
(* pillar, none or one of the second, each with up to MaxFound pairs.     *)
Sites ==
  LET Pages == UNION {[1..n -> Found] : n \in 0..MaxFound}
      Second == {<< >>,
                 <<<<[qid |-> "SEC-1", qtext |-> <<LongWord, SP, "more?">>]>>>>}
  IN  {[p \in PillarSet |-> IF p = PILLARS[1] THEN first ELSE second] :
         first \in UNION {[1..n -> Pages] : n \in 1..MaxPages},
         second \in Second}

(* _parse_questions_from_html from line 126 on: the pairs without those  *)
(* whose key (qid or qtext).lower() an earlier pair of the page has.      *)
_parse_questions_from_html(questions) ==
  LET Lower(text) == [k \in DOMAIN text |->
                        IF text[k] = "How" THEN "how" ELSE text[k]]
      Key(pair) == IF pair.qid # "" THEN <<pair.qid>> ELSE Lower(pair.qtext)
  IN  SelectSeq([k \in 1..Len(questions) |->
                   [pair |-> questions[k],
                    seen |-> \E j \in 1..(k - 1) :
                               Key(questions[j]) = Key(questions[k])]],
                LAMBDA e : ~e.seen)

(* _qid: the first eight characters of the pillar in upper case, "-",    *)
(* and idx in three digits.                                               *)
_qid(pillar, idx) ==
  LET Prefix == [p \in {AllPillars[k] : k \in 1..Len(AllPillars)} |->
                   CASE p = "operational-excellence" -> "OPERATIO"
                     [] p = "security" -> "SECURITY"
                     [] p = "reliability" -> "RELIABIL"
                     [] p = "performance-efficiency" -> "PERFORMA"
                     [] p = "cost-optimization" -> "COST_OPT"
                     [] p = "sustainability" -> "SUSTAINA"]
  IN  Prefix[pillar] \o "-" \o Digits[(idx \div 100) + 1]
        \o Digits[((idx \div 10) % 10) + 1] \o Digits[(idx % 10) + 1]

(* The questions of cmd_fetch, lines 170-196: for each pillar the pairs  *)
(* of its topic pages one after the other, numbered through the pillar.   *)
RECURSIVE FetchQuestions(_, _)
FetchQuestions(site, k) ==
  LET RECURSIVE Parsed(_)
      Parsed(pages) ==
        IF pages = << >> THEN << >>
        ELSE _parse_questions_from_html(Head(pages)) \o Parsed(Tail(pages))
      Numbered(pillar, parsed) ==
        [idx \in 1..Len(parsed) |->
           Q(pillar,
             IF parsed[idx].pair.qid # "" THEN parsed[idx].pair.qid
             ELSE _qid(pillar, idx),
             parsed[idx].pair.qtext)]
  IN  IF k > Len(PILLARS) THEN << >>
      ELSE Numbered(PILLARS[k], Parsed(site[PILLARS[k]]))
             \o FetchQuestions(site, k + 1)

(* cmd_fetch: with a cache file and no --refresh it only prints; else it *)
(* saves the questions the pages yield, and fails when they yield none.   *)
Fetch(refresh, questions) ==
  /\ steps < MaxSteps
  /\ IF cached /\ ~refresh
     THEN /\ UNCHANGED <<cached, cache>>
          /\ last' = Outcome("fetch", "", NoArgs, << >>)
     ELSE IF questions = << >>
     THEN /\ UNCHANGED <<cached, cache>>
          /\ last' = Outcome("fetch", "WAIError: No questions parsed",
                             NoArgs, << >>)
     ELSE /\ cached' = TRUE
          /\ cache' = questions
          /\ last' = Outcome("fetch", "", NoArgs, << >>)
  /\ calls' = << >>
  /\ before' = docs
  /\ steps' = steps + 1
  /\ UNCHANGED <<exists, docs, mapped, kmap, scanned, evidence, issues, held>>

(***************************************************************************)
(* init                                                                    *)
(***************************************************************************)

(* kanbus_map["tasks"][qid] = task_id *)
SetTask(tasks, qid, task_id) ==
  [q \in DOMAIN tasks \cup {qid} |-> IF q = qid THEN task_id ELSE tasks[q]]

(* The tasks of one pillar, lines 348-354: st is [issues, tasks]. *)
RECURSIVE InitTasks(_, _, _, _, _)
InitTasks(st, questions, pillar, epic_id, snapshot) ==
  LET Task(q, made) ==
        InitTasks([issues |-> made.issues,
                   tasks |-> SetTask(st.tasks, q.question_id, made.id)],
                  Tail(questions), pillar, epic_id, snapshot)
      Question(q) ==
        IF q.pillar # pillar
        THEN InitTasks(st, Tail(questions), pillar, epic_id, snapshot)
        ELSE Task(q, _create_kanbus_issue(
                       st.issues,
                       <<q.question_id, SP>> \o _short_title(q.question_text),
                       epic_id, snapshot))
  IN  IF questions = << >> THEN st ELSE Question(Head(questions))

(* The epics and their tasks, lines 344-354: st is [issues, epics, tasks] *)
RECURSIVE InitPillars(_, _, _, _, _)
InitPillars(st, k, questions, initiative_id, snapshot) ==
  LET Tasks(pillar, epic_id, done) ==
        InitPillars(
          [issues |-> done.issues,
           epics |-> [p \in DOMAIN st.epics \cup {pillar} |->
                        IF p = pillar THEN epic_id ELSE st.epics[p]],
           tasks |-> done.tasks],
          k + 1, questions, initiative_id, snapshot)
      Epic(pillar, epic) ==
        Tasks(pillar, epic.id,
              InitTasks([issues |-> epic.issues, tasks |-> st.tasks],
                        questions, pillar, epic.id, snapshot))
      Pillar(pillar) ==
        Epic(pillar,
             _create_kanbus_issue(st.issues,
                                  PillarTitle(pillar) \o <<SP, "Pillar">>,
                                  initiative_id, snapshot))
  IN  IF k > Len(PILLARS) THEN st ELSE Pillar(PILLARS[k])

(* kanbus_map["tasks"].get(qid, ""): qid is the text of a parsed id. *)
TaskOf(map, qid) ==
  IF Len(qid) = 1 /\ qid[1] \in DOMAIN map.tasks
  THEN map.tasks[qid[1]] ELSE << >>

(* The entry loop of _apply_kanbus_ids, lines 415-421. *)
RECURSIVE KanbusIdEntries(_, _, _, _)
KanbusIdEntries(new_content, entries, k, map) ==
  LET Entry(block, task_id) ==
        KanbusIdEntries(
          IF task_id # << >>
          THEN Replace(new_content, block,
                       _replace_field(block, "Kanbus Task", task_id))
          ELSE new_content,
          entries, k + 1, map)
  IN  IF k > Len(entries) THEN new_content
      ELSE Entry(entries[k].block, TaskOf(map, entries[k].id))

(* One report of _apply_kanbus_ids, lines 412-423: bs are its blocks. *)
KanbusIdDoc(content, bs, map) ==
  IF SomeRaises(bs) THEN [text |-> content, err |-> "ValueError"]
  ELSE [text |-> KanbusIdEntries(content, Entries(bs), 1, map), err |-> ""]

(* _apply_kanbus_ids over the reports in files (present: the pillars     *)
(* that have one); a report whose parse raises ends it.                   *)
RECURSIVE _apply_kanbus_ids(_, _, _, _)
_apply_kanbus_ids(files, present, k, map) ==
  LET Done(p, doc) ==
        IF doc.err # "" THEN [docs |-> files, err |-> doc.err]
        ELSE _apply_kanbus_ids([files EXCEPT ![p] = doc.text], present,
                               k + 1, map)
      Pillar(p) ==
        IF p \notin present
        THEN _apply_kanbus_ids(files, present, k + 1, map)
        ELSE Done(p, KanbusIdDoc(files[p], ReportBlocks(files[p]), map))
  IN  IF k > Len(PILLARS) THEN [docs |-> files, err |-> ""]
      ELSE Pillar(PILLARS[k])

(* cmd_init from line 336 on, with the cache loaded.  kanbus: "up",      *)
(* "nosnapshot" (issues are created, the snapshot cannot be read) or     *)
(* "down" (the first create fails, after the reports were written).       *)
InitRun(questions, known, kanbus, now) ==
  LET Injected(made, kanbus_map, injected) ==
        [issues |-> made.issues, docs |-> injected.docs, kmap |-> kanbus_map,
         err |-> injected.err, wrote_map |-> TRUE]
      Mapped(written, made, kanbus_map) ==
        Injected(made, kanbus_map,
                 _apply_kanbus_ids(written, PillarSet, 1, kanbus_map))
      Made(written, initiative, made) ==
        Mapped(written, made,
               [initiative |-> initiative.id, epics |-> made.epics,
                tasks |-> made.tasks])
      Initiative(written, initiative) ==
        Made(written, initiative,
             InitPillars([issues |-> initiative.issues,
                          epics |-> [p \in {} |-> << >>],
                          tasks |-> [q \in {} |-> << >>]],
                         1, questions, initiative.id, kanbus = "up"))
      Written(written) ==
        IF kanbus = "down"
        THEN [issues |-> known, docs |-> written, kmap |-> EmptyMap,
              err |-> "WAIError: kanbus", wrote_map |-> FALSE]
        ELSE Initiative(written,
                        _create_kanbus_issue(
                          known,
                          <<"Well-Architected", SP, "Assessment", ":", SP,
                            Assessment>>,
                          << >>, kanbus = "up"))
  IN  Written(_write_reports(questions, now))

(* cmd_init.  target: --target-dir exists.  out keeps how Kanbus       *)
(* answered the run.                                                      *)
CmdInit(target, kanbus) ==
  /\ steps < MaxSteps
  /\ IF ~target
     THEN /\ last' = Outcome("init", "WAIError: target-dir not found",
                             NoArgs, << >>)
          /\ UNCHANGED <<exists, docs, mapped, kmap, issues>>
     ELSE IF ~cached
     THEN /\ last' = Outcome("init", "WAIError: Questions cache not found",
                             NoArgs, << >>)
          /\ UNCHANGED <<exists, docs, mapped, kmap, issues>>
     ELSE \E run \in {InitRun(cache, issues, kanbus, Now)} :
            /\ exists' = PillarSet
            /\ docs' = run.docs
            /\ mapped' = (mapped \/ run.wrote_map)
            /\ kmap' = IF run.wrote_map THEN run.kmap ELSE kmap
            /\ issues' = run.issues
            /\ last' = Outcome("init", run.err, NoArgs, <<kanbus>>)
  /\ calls' = << >>
  /\ before' = docs
  /\ steps' = steps + 1
  /\ UNCHANGED <<cached, cache, scanned, evidence, held>>

(***************************************************************************)
(* scan                                                                    *)
(***************************************************************************)

(* cmd_scan without optional scanners: it writes evidence.json. *)
Scan(target, found) ==
  /\ steps < MaxSteps
  /\ IF ~target
     THEN /\ last' = Outcome("scan", "WAIError: target-dir not found",
                             NoArgs, << >>)
          /\ UNCHANGED <<scanned, evidence>>
     ELSE IF exists = {}
     THEN /\ last' = Outcome("scan", "WAIError: assessment reports not found",
                             NoArgs, << >>)
          /\ UNCHANGED <<scanned, evidence>>
     ELSE /\ scanned' = TRUE
          /\ evidence' = found
          /\ last' = Outcome("scan", "", NoArgs, << >>)
  /\ calls' = << >>
  /\ before' = docs
  /\ steps' = steps + 1
  /\ UNCHANGED <<cached, cache, exists, docs, mapped, kmap, issues, held>>

(***************************************************************************)
(* The assessments the commands start from                                 *)
(***************************************************************************)

(* Nothing was run yet. *)
Blank ==
  /\ cached = FALSE
  /\ cache = << >>
  /\ exists = {}
  /\ docs = [p \in PillarSet |-> << >>]
  /\ mapped = FALSE
  /\ kmap = EmptyMap
  /\ issues = << >>

(* fetch saved the inventory questions and init ran with Kanbus up. *)
Initialized(questions) ==
  \E run \in {InitRun(questions, << >>, "up", InitTime)} :
    /\ cached = TRUE
    /\ cache = questions
    /\ exists = PillarSet
    /\ docs = run.docs
    /\ mapped = TRUE
    /\ kmap = run.kmap
    /\ issues = run.issues

(* The inventory changed after that (fetch --refresh) and init ran again *)
(* with Kanbus down: the reports are those of the new questions, the map *)
(* is still the one of the old.                                           *)
Reinitialized(old, questions) ==
  \E run \in {InitRun(old, << >>, "up", InitTime)} :
    \E again \in {InitRun(questions, run.issues, "down", InitTime)} :
      /\ cached = TRUE
      /\ cache = questions
      /\ exists = PillarSet
      /\ docs = again.docs
      /\ mapped = TRUE
      /\ kmap = run.kmap
      /\ issues = run.issues

(* The state the commands start from: nothing was run, or the assessment *)
(* was initialized and, maybe, scanned.                                   *)
Init ==
  /\ \/ Blank /\ scanned = FALSE /\ evidence = EmptyInventory
     \/ \E old, questions \in Inventories :
          /\ old[2].pillar # questions[2].pillar
          /\ old[2].pillar = PILLARS[1]
          /\ Reinitialized(old, questions)
          /\ scanned = FALSE /\ evidence = EmptyInventory
     \/ \E questions \in Inventories :
          /\ Initialized(questions)
          /\ \/ scanned = FALSE /\ evidence = EmptyInventory
             \/ \E found \in Targets : scanned = TRUE /\ evidence = found
  /\ before = docs
  /\ calls = << >>
  /\ held = NoHeld
  /\ last = Outcome("none", "", NoArgs, << >>)
  /\ steps = 0

(***************************************************************************)
(* apply-evidence                                                          *)
(***************************************************************************)

(* ",".join(items) *)
RECURSIVE JoinComma(_)
JoinComma(items) ==
  IF items = << >> THEN << >>
  ELSE IF Len(items) = 1 THEN <<items[1]>>
  ELSE <<items[1], ",">> \o JoinComma(Tail(items))

(* ", ".join(summary_bits) *)
RECURSIVE JoinBits(_)
JoinBits(bits) ==
  IF bits = << >> THEN << >>
  ELSE IF Len(bits) = 1 THEN bits[1]
  ELSE bits[1] \o <<",", SP>> \o JoinBits(Tail(bits))

(* The evidence summary, lines 514-522. *)
Summary(inventory) ==
  JoinBits(
    (IF inventory.languages # << >>
     THEN <<<<"languages=">> \o JoinComma(inventory.languages)>> ELSE << >>)
    \o (IF inventory.infra # << >>
        THEN <<<<"infra=">> \o JoinComma(inventory.infra)>> ELSE << >>)
    \o (IF inventory.ci # << >>
        THEN <<<<"ci=">> \o JoinComma(inventory.ci)>> ELSE << >>))

HQPrompt == <<"Please describe how your team addresses", ":">>

(* CurrentStatus without lines 536-537: an answer does not count. *)
CurrentStatusIgnoresAnswer(entry, summary) ==
  IF entry.status = << >> THEN <<"unanswered">>
  ELSE IF entry.status = <<"answered">>
       THEN (IF summary # << >> THEN <<"partial">> ELSE <<"needs_human">>)
       ELSE entry.status

(* CurrentStatus without lines 538-539: a stale answered stays. *)
CurrentStatusKeepsStale(entry, summary) ==
  IF _parse_field(entry.block, "Answer") # << >> THEN <<"answered">>
  ELSE IF entry.status = << >> THEN <<"unanswered">>
  ELSE entry.status

(* Lines 534-539: the status an entry counts as having. *)
CurrentStatus(entry, summary) ==
  IF _parse_field(entry.block, "Answer") # << >> THEN <<"answered">>
  ELSE IF entry.status = << >> THEN <<"unanswered">>
  ELSE IF entry.status = <<"answered">>
       THEN (IF summary # << >> THEN <<"partial">> ELSE <<"needs_human">>)
       ELSE entry.status

(* EvidenceValue that leaves the field empty. *)
EvidenceValueNone(summary) ==
  << >>

(* Line 540: ev_value, what goes into the Evidence field. *)
EvidenceValue(summary) ==
  IF summary # << >> THEN summary ELSE << >>

(* Overwritable that takes every text for a prompt. *)
OverwritableAlways(existing_hq) ==
  TRUE

(* Line 551: the Human Questions field is empty or holds a prompt that   *)
(* was generated before.                                                  *)
Overwritable(existing_hq) ==
  existing_hq = << >> \/ StartsWith(existing_hq, HQPrompt)

(* One entry of the loop of cmd_apply_evidence, lines 532-567: the new   *)
(* text of its block.                                                     *)
EvidenceBlock(entry, summary) ==
  LET Heading(b3, question_text) ==
        ReplaceNbsp(NormHeading(
          IF question_text # << >>
          THEN SubHeadingFrom(
                 _replace_field(b3, "Question", question_text),
                 <<"##", SP>> \o entry.id \o <<":", SP>>
                   \o _short_title(question_text),
                 1)
          ELSE b3))
      Prompt(b2, existing_hq, question_text) ==
        IF Overwritable(existing_hq)
        THEN _replace_field(b2, "Human Questions",
                            HQPrompt \o <<SP>> \o question_text)
        ELSE b2
      Status(b1, current_status, question_text) ==
        IF current_status = <<"answered">>
        THEN Heading(_replace_field(b1, "Status", <<"answered">>),
                     question_text)
        ELSE Heading(
               (LET B2(b2) ==
                      IF question_text # << >>
                      THEN Prompt(b2, _parse_field(b2, "Human Questions"),
                                  question_text)
                      ELSE b2
                IN  B2(_replace_field(b1, "Status",
                                      IF summary # << >> THEN <<"partial">>
                                      ELSE <<"needs_human">>))),
               question_text)
  IN  Status(_replace_field(entry.block, "Evidence", EvidenceValue(summary)),
             CurrentStatus(entry, summary),
             _normalize_text(IF entry.question # << >> THEN entry.question
                             ELSE entry.title))

RECURSIVE EvidenceEntries(_, _, _, _)
EvidenceEntries(new_content, entries, k, summary) ==
  IF k > Len(entries) THEN new_content
  ELSE EvidenceEntries(
         Replace(new_content, entries[k].block,
                 EvidenceBlock(entries[k], summary)),
         entries, k + 1, summary)

(* One pillar of cmd_apply_evidence, lines 528-571: the text written for *)
(* a report with the blocks bs.                                           *)
EvidenceDoc(content, bs, summary) ==
  IF SomeRaises(bs) THEN [text |-> content, err |-> "ValueError"]
  ELSE [text |-> ReplaceNbsp(NormHeading(
                   EvidenceEntries(content, Entries(bs), 1, summary))),
        err |-> ""]

(* The pillar loop: a report whose parse raises ends the command, the    *)
(* reports before it are written.                                         *)
RECURSIVE EvidencePillars(_, _, _, _)
EvidencePillars(files, present, k, summary) ==
  LET Done(p, doc) ==
        IF doc.err # "" THEN [docs |-> files, err |-> doc.err]
        ELSE EvidencePillars([files EXCEPT ![p] = doc.text], present, k + 1,
                             summary)
      Pillar(p) ==
        IF p \notin present
        THEN EvidencePillars(files, present, k + 1, summary)
        ELSE Done(p, EvidenceDoc(files[p], ReportBlocks(files[p]), summary))
  IN  IF k > Len(PILLARS) THEN [docs |-> files, err |-> ""]
      ELSE Pillar(PILLARS[k])

(* cmd_apply_evidence *)
ApplyEvidence ==
  /\ steps < MaxSteps
  /\ IF ~scanned
     THEN /\ last' = Outcome("apply-evidence",
                             "WAIError: evidence.json not found", NoArgs,
                             << >>)
          /\ UNCHANGED docs
     ELSE \E done \in {EvidencePillars(docs, exists, 1, Summary(evidence))} :
            /\ docs' = done.docs
            /\ last' = Outcome("apply-evidence", done.err, NoArgs, << >>)
  /\ calls' = << >>
  /\ before' = docs
  /\ steps' = steps + 1
  /\ UNCHANGED <<cached, cache, exists, mapped, kmap, scanned, evidence,
                 issues, held>>

(***************************************************************************)
(* record-answer                                                           *)
(***************************************************************************)

(* What a caller may pass.  The parser of --status and --confidence      *)
(* takes any string: "done" and "certain" stand for those outside the    *)
(* enumerations.                                                          *)
StatusArgs == {<<v>> : v \in STATUS_VALUES} \cup {<<"done">>}
Flags ==
  {<<status, <<"medium">>>> : status \in StatusArgs}
    \cup {<<<<"answered">>, <<"certain">>>>}
AnswerFiles ==
  {<<"We", SP, NL, "do", SP, "Y", NL>>, <<NL>>,
   <<"a", BSN, "Evidence", ":", SP, "b", NL>>}
QuestionArgs == {<<"OPS-1">>, <<"OPS-2">>}

(* re.sub(r"\s+", " ", raw_answer).strip() *)
AnswerText(raw_answer) == Strip(CollapseSpace(raw_answer))

(* Lines 607-612: the new text of the block of a matching entry. *)
AnswerBlock(block, args, now) ==
  _replace_field(
    SubFieldFrom(
      _replace_field(_replace_field(block, "Status", args.status),
                     "Confidence", args.confidence),
      "Answer", <<"Answer", ":", SP>> \o args.answer, 1),
    "Last Updated", now)

(* The entry loop, lines 604-614. *)
RECURSIVE AnswerEntries(_, _, _, _, _)
AnswerEntries(new_content, entries, k, args, now) ==
  IF k > Len(entries) THEN new_content
  ELSE AnswerEntries(
         IF entries[k].id = args.qid
         THEN Replace(new_content, entries[k].block,
                      AnswerBlock(entries[k].block, args, now))
         ELSE new_content,
         entries, k + 1, args, now)

(* Some entry has the id asked for (updated = True). *)
(* HasEntry that takes any entry for a match. *)
HasEntryAny(entries, qid) ==
  entries # << >>

HasEntry(entries, qid) ==
  \E k \in 1..Len(entries) : entries[k].id = qid

(* One pillar of cmd_record_answer, lines 601-616: the text of a report  *)
(* with the blocks bs afterwards, and whether an entry matched.           *)
AnswerDoc(content, bs, args, now) ==
  LET Updated(entries) ==
        [text |-> AnswerEntries(content, entries, 1, args, now),
         updated |-> HasEntry(entries, args.qid), err |-> ""]
  IN  IF SomeRaises(bs)
      THEN [text |-> content, updated |-> FALSE, err |-> "ValueError"]
      ELSE Updated(Entries(bs))

(* The pillar loop, lines 597-619. *)
RECURSIVE AnswerPillars(_, _, _, _, _, _)
AnswerPillars(files, present, k, updated, args, now) ==
  LET Done(p, doc) ==
        IF doc.err # "" THEN [docs |-> files, err |-> doc.err]
        ELSE AnswerPillars([files EXCEPT ![p] = doc.text], present, k + 1,
                           updated \/ doc.updated, args, now)
      Pillar(p) ==
        IF p \notin present
        THEN AnswerPillars(files, present, k + 1, updated, args, now)
        ELSE Done(p, AnswerDoc(files[p], ReportBlocks(files[p]), args, now))
  IN  IF k > Len(PILLARS)
      THEN [docs |-> files,
            err |-> IF updated THEN ""
                    ELSE "WAIError: Question ID not found in reports"]
      ELSE Pillar(PILLARS[k])

(* cmd_record_answer *)
RecordAnswer(qid, status, confidence, raw_answer) ==
  /\ steps < MaxSteps
  /\ \E args \in {[status |-> status, confidence |-> confidence, qid |-> qid,
                   answer |-> AnswerText(raw_answer)]} :
       \E done \in {AnswerPillars(docs, exists, 1, FALSE, args, Now)} :
         /\ docs' = done.docs
         /\ last' = Outcome("record-answer", done.err, args, << >>)
  /\ calls' = << >>
  /\ before' = docs
  /\ steps' = steps + 1
  /\ UNCHANGED <<cached, cache, exists, mapped, kmap, scanned, evidence,
                 issues, held>>

(***************************************************************************)
(* sync-kanbus                                                             *)
(***************************************************************************)

(* A call of the Kanbus command line.  pillar and entry say for which    *)
(* record of which report it was requested (entry 0: for the epic).       *)
KanbusCall(op, id, arg, pillar, entry) ==
  [id |-> id, pillar |-> pillar, entry |-> entry, op |-> op, arg |-> arg]

(* Lines 639-651 for one entry: the calls it asks for. *)
EntryCalls(entry, pillar, k, map, known) ==
  LET Requests(task_id, answer) ==
        (IF answer # << >>
         THEN <<KanbusCall("comment", task_id, <<"Answer", ":", NL>> \o answer,
                           pillar, k)>>
         ELSE << >>)
        \o (IF entry.status = <<"answered">>
            THEN <<KanbusCall("update", task_id, "closed", pillar, k)>>
            ELSE IF entry.status = <<"needs_human">>
            THEN <<KanbusCall("update", task_id, "blocked", pillar, k)>>
            ELSE << >>)
      Task(task_id) ==
        IF task_id = << >> THEN << >>
        ELSE Requests(_resolve_full_id(task_id, << >>, << >>, known),
                      _parse_field(entry.block, "Answer"))
  IN  Task(TaskOf(map, entry.id))

(* The entry loop of one report, lines 638-651. *)
RECURSIVE ReportCalls(_, _, _, _, _)
ReportCalls(entries, pillar, k, map, known) ==
  IF k > Len(entries) THEN << >>
  ELSE EntryCalls(entries[k], pillar, k, map, known)
         \o ReportCalls(entries, pillar, k + 1, map, known)

(* The first loop, lines 632-651: the calls it asks for when no call     *)
(* fails, up to a report whose parse raises.                              *)
RECURSIVE RecordCalls(_, _, _, _, _)
RecordCalls(files, present, k, map, known) ==
  LET More(first, rest) ==
        [calls |-> first \o rest.calls, err |-> rest.err]
      Report(p, bs) ==
        IF SomeRaises(bs) THEN [calls |-> << >>, err |-> "ValueError"]
        ELSE More(ReportCalls(Entries(bs), p, 1, map, known),
                  RecordCalls(files, present, k + 1, map, known))
      Pillar(p) ==
        IF p \notin present
        THEN RecordCalls(files, present, k + 1, map, known)
        ELSE Report(p, ReportBlocks(files[p]))
  IN  IF k > Len(PILLARS) THEN [calls |-> << >>, err |-> ""]
      ELSE Pillar(PILLARS[k])

(* Every entry has status answered: the loop of lines 663-666. *)
AllClosed(entries) ==
  \A k \in 1..Len(entries) : entries[k].status = <<"answered">>

(* The second loop, lines 654-668, over the epics of the map in the      *)
(* order init entered them.                                               *)
RECURSIVE EpicCalls(_, _, _, _, _)
EpicCalls(files, present, k, map, known) ==
  LET More(first, rest) ==
        [calls |-> first \o rest.calls, err |-> rest.err]
      Report(p, bs) ==
        IF SomeRaises(bs) THEN [calls |-> << >>, err |-> "ValueError"]
        ELSE More(IF AllClosed(Entries(bs))
                  THEN <<KanbusCall("update",
                                    _resolve_full_id(map.epics[p], << >>,
                                                     << >>, known),
                                    "closed", p, 0)>>
                  ELSE << >>,
                  EpicCalls(files, present, k + 1, map, known))
      Pillar(p) ==
        IF p \notin DOMAIN map.epics \/ p \notin present
        THEN EpicCalls(files, present, k + 1, map, known)
        ELSE Report(p, ReportBlocks(files[p]))
  IN  IF k > Len(PILLARS) THEN [calls |-> << >>, err |-> ""]
      ELSE Pillar(PILLARS[k])

(* Both loops: the calls of a run in which no call fails. *)
SyncPlan(files, present, map, known) ==
  LET Both(records, epics) ==
        IF records.err # "" THEN records
        ELSE [calls |-> records.calls \o epics.calls, err |-> epics.err]
  IN  Both(RecordCalls(files, present, 1, map, known),
           EpicCalls(files, present, 1, map, known))

MaxFailAt == 2

(* How Kanbus answers the calls of one run: every call succeeds, or the  *)
(* at-th call fails, with "no updates requested" or with another error.   *)
Failures ==
  {[at |-> 0, kind |-> "none"]}
    \cup {[at |-> n, kind |-> kind] :
            n \in 1..MaxFailAt, kind \in {"no updates requested", "error"}}

(* Aborts without lines 320-321: every failing call ends the run. *)
AbortsAlways(call, failure) ==
  TRUE

(* A failing call ends the run, lines 311-322: _kanbus_comment lets      *)
(* every error through, _kanbus_update_status all but "no updates        *)
(* requested".                                                            *)
Aborts(call, failure) ==
  ~(call.op = "update" /\ failure.kind = "no updates requested")

(* SyncRun that remembers: a call the run before asked for is left out. *)
SyncRunOnce(plan, failure) ==
  [calls |-> SelectSeq(plan.calls,
                       LAMBDA c : \A i \in 1..Len(calls) : calls[i] # c),
   err |-> plan.err]

(* The run of a plan against Kanbus: the calls requested and how it ends *)
SyncRun(plan, failure) ==
  IF /\ failure.at >= 1
     /\ failure.at <= Len(plan.calls)
     /\ Aborts(plan.calls[failure.at], failure)
  THEN [calls |-> SubSeq(plan.calls, 1, failure.at), err |-> "WAIError: kanbus"]
  ELSE plan

(* SnapshotIssues that still knows the issues when the call failed. *)
SnapshotKept(snapshot, known) ==
  known

(* Lines 625-629: the issues of the snapshot, none when the call or the  *)
(* parse of its output failed.                                            *)
SnapshotIssues(snapshot, known) ==
  IF snapshot THEN known ELSE << >>

(* cmd_sync_kanbus.  snapshot: "kanbus console snapshot" answers; the   *)
(* calls of the run meet any of the Failures.  out keeps how Kanbus      *)
(* answered the run and which command ran before it.                      *)
Sync(snapshot) ==
  /\ steps < MaxSteps
  /\ IF ~mapped
     THEN /\ calls' = << >>
          /\ last' = Outcome("sync-kanbus", "FileNotFoundError", NoArgs, << >>)
     ELSE \E plan \in {SyncPlan(docs, exists, kmap,
                                SnapshotIssues(snapshot, issues))} :
            \E failure \in Failures :
              \E run \in {SyncRun(plan, failure)} :
                /\ calls' = run.calls
                /\ last' = Outcome("sync-kanbus", run.err, NoArgs,
                                   <<[snapshot |-> snapshot,
                                      failure |-> failure,
                                      after |-> last.cmd]>>)
  /\ before' = docs
  /\ steps' = steps + 1
  /\ UNCHANGED <<cached, cache, exists, docs, mapped, kmap, scanned, evidence,
                 issues, held>>

(***************************************************************************)
(* validate and list-unanswered                                            *)
(***************************************************************************)

(* entry[field] not in VALUES, for a parsed field *)
InEnum(value, values) == Len(value) = 1 /\ value[1] \in values

(* Lines 683-690 for the k-th entry: the errors it adds. *)
EntryErrors(entries, pillar, k) ==
  (IF \E j \in 1..(k - 1) : entries[j].id = entries[k].id
   THEN <<[id |-> entries[k].id, pillar |-> pillar,
           error |-> "duplicate question id"]>>
   ELSE << >>)
  \o (IF entries[k].status # << >>
         /\ ~InEnum(entries[k].status, STATUS_VALUES)
      THEN <<[id |-> entries[k].id, pillar |-> pillar,
              error |-> "invalid status"]>>
      ELSE << >>)
  \o (IF entries[k].confidence # << >>
         /\ ~InEnum(entries[k].confidence, CONFIDENCE_VALUES)
      THEN <<[id |-> entries[k].id, pillar |-> pillar,
              error |-> "invalid confidence"]>>
      ELSE << >>)

RECURSIVE ReportErrors(_, _, _)
ReportErrors(entries, pillar, k) ==
  IF k > Len(entries) THEN << >>
  ELSE EntryErrors(entries, pillar, k) \o ReportErrors(entries, pillar, k + 1)

(* The pillar loop of cmd_validate, lines 675-690. *)
RECURSIVE ValidatePillars(_, _, _)
ValidatePillars(files, present, k) ==
  LET More(first, rest) == [err |-> rest.err, out |-> first \o rest.out]
      Report(p, bs) ==
        IF SomeRaises(bs) THEN [err |-> "ValueError", out |-> << >>]
        ELSE More(ReportErrors(Entries(bs), p, 1),
                  ValidatePillars(files, present, k + 1))
      Pillar(p) ==
        IF p \notin present
        THEN More(<<[id |-> << >>, pillar |-> p,
                     error |-> "missing pillar report"]>>,
                  ValidatePillars(files, present, k + 1))
        ELSE Report(p, ReportBlocks(files[p]))
  IN  IF k > Len(PILLARS) THEN [err |-> "", out |-> << >>]
      ELSE Pillar(PILLARS[k])

(* cmd_validate: it prints the errors and exits with 1, or prints "ok". *)
Validate ==
  /\ steps < MaxSteps
  /\ \E found \in {ValidatePillars(docs, exists, 1)} :
       last' = Outcome("validate",
                       IF found.err # "" THEN found.err
                       ELSE IF found.out # << >> THEN "SystemExit: 1" ELSE "",
                       NoArgs, found.out)
  /\ calls' = << >>
  /\ before' = docs
  /\ steps' = steps + 1
  /\ UNCHANGED <<cached, cache, exists, docs, mapped, kmap, scanned, evidence,
                 issues, held>>

(* The entries cmd_list_unanswered prints, lines 578-586. *)
RECURSIVE UnansweredPillars(_, _, _)
UnansweredPillars(files, present, k) ==
  LET More(first, rest) == [err |-> rest.err, out |-> first \o rest.out]
      Open(p, entries) ==
        [j \in 1..Len(entries) |->
           [id |-> entries[j].id, status |-> entries[j].status, pillar |-> p]]
      Report(p, bs) ==
        IF SomeRaises(bs) THEN [err |-> "ValueError", out |-> << >>]
        ELSE More(SelectSeq(Open(p, Entries(bs)),
                            LAMBDA e : e.status \in {<< >>, <<"unanswered">>,
                                                     <<"needs_human">>,
                                                     <<"partial">>}),
                  UnansweredPillars(files, present, k + 1))
      Pillar(p) ==
        IF p \notin present THEN UnansweredPillars(files, present, k + 1)
        ELSE Report(p, ReportBlocks(files[p]))
  IN  IF k > Len(PILLARS) THEN [err |-> "", out |-> << >>]
      ELSE Pillar(PILLARS[k])

(* cmd_list_unanswered *)
ListUnanswered ==
  /\ steps < MaxSteps
  /\ \E found \in {UnansweredPillars(docs, exists, 1)} :
       last' = Outcome("list-unanswered", found.err, NoArgs, found.out)
  /\ calls' = << >>
  /\ before' = docs
  /\ steps' = steps + 1
  /\ UNCHANGED <<cached, cache, exists, docs, mapped, kmap, scanned, evidence,
                 issues, held>>

(***************************************************************************)
(* Edits by hand                                                           *)
(***************************************************************************)

(* The reports are plain text that people edit.  "answer" is the edit of *)
(* tests/test_steps.py: the first "Status: unanswered" becomes "Status:  *)
(* answered" and the first "Answer:" gets a text; "status" is its first  *)
(* half alone: a status set by hand, no answer given.                     *)
EditKinds == {"answer", "status"}

HandStatus(content) ==
  ReplaceFirst(content, <<"Status", ":", SP, "unanswered">>,
               <<"Status", ":", SP, "answered">>)

HandAnswer(content) ==
  ReplaceFirst(HandStatus(content), <<"Answer", ":">>,
               <<"Answer", ":", SP, "We", SP, "do", SP, "X">>)

(* "paste": the first three lines of the first record (its heading, its  *)
(* Question and its Status) are pasted in once more, in front of it.      *)
HandPaste(content) ==
  LET Copy(i, e) ==
        SubSeq(content, 1, i - 1) \o SubSeq(content, i, Min({e, Len(content)}))
          \o SubSeq(content, i, Len(content))
      Record(ms) ==
        IF ms = << >> THEN content
        ELSE Copy(ms[1],
                  LineEnd(content,
                          LineEnd(content, LineEnd(content, ms[1]) + 1) + 1))
  IN  Record(HeadingMatches(content, 1))

(* "note": someone writes a note of their own into the Human Questions  *)
(* field of the first record that has one.                                *)
HandNote(content) ==
  LET Line(i) ==
        SubSeq(content, 1, i - 1)
          \o <<"Human Questions", ":", SP, "ask", SP, "Bob">>
          \o SubSeq(content, LineEnd(content, i), Len(content))
      First(at) == IF at = {} THEN content ELSE Line(Min(at))
  IN  First(FieldLines(content, "Human Questions"))

(* "drift": the heading of the first record gets a second space after   *)
(* its marker, a space before its colon and a second space after it.      *)
HandDrift(content) ==
  LET Spaced(i, c) ==
        SubSeq(content, 1, i + 1) \o <<SP>> \o SubSeq(content, i + 2, c - 1)
          \o <<SP, ":", SP>> \o SubSeq(content, c + 1, Len(content))
      Record(ms) ==
        IF ms = << >> THEN content
        ELSE Spaced(ms[1], FirstColon(content, ms[1] + 2))
  IN  Record(HeadingMatches(content, 1))

Edited(content, kind) ==
  CASE kind = "answer" -> HandAnswer(content)
    [] kind = "status" -> HandStatus(content)
    [] kind = "paste" -> HandPaste(content)
    [] kind = "note" -> HandNote(content)
    [] kind = "drift" -> HandDrift(content)

ExternalEdit(p, kind) ==
  /\ steps < MaxSteps
  /\ p \in exists
  /\ \E text \in {Edited(docs[p], kind)} :
       /\ text # docs[p]
       /\ docs' = [docs EXCEPT ![p] = text]
  /\ last' = Outcome("edit", "", NoArgs, << >>)
  /\ calls' = << >>
  /\ before' = docs
  /\ steps' = steps + 1
  /\ UNCHANGED <<cached, cache, exists, mapped, kmap, scanned, evidence,
                 issues, held>>

(***************************************************************************)
(* Specification                                                           *)
(***************************************************************************)

Next ==
  \/ \E refresh \in BOOLEAN, questions \in Inventories :
       Fetch(refresh, questions)
  \/ \E target \in BOOLEAN, kanbus \in KanbusModes : CmdInit(target, kanbus)
  \/ \E target \in BOOLEAN, found \in Targets : Scan(target, found)
  \/ ApplyEvidence
  \/ \E qid \in QuestionArgs, flags \in Flags, raw_answer \in AnswerFiles :
       RecordAnswer(qid, flags[1], flags[2], raw_answer)
  \/ \E snapshot \in BOOLEAN : Sync(snapshot)
  \/ Validate
  \/ ListUnanswered
  \/ \E p \in PillarSet, kind \in EditKinds : ExternalEdit(p, kind)

Spec == Init /\ [][Next]_vars

(* fetch from the topic pages, then init. *)
InitFetch ==
  /\ Blank
  /\ before = docs
  /\ scanned = FALSE
  /\ evidence = EmptyInventory
  /\ calls = << >>
  /\ held = NoHeld
  /\ last = Outcome("none", "", NoArgs, << >>)
  /\ steps = 0

NextFetch ==
  \/ \E refresh \in BOOLEAN, site \in Sites :
       Fetch(refresh, FetchQuestions(site, 1))
  \/ \E target \in BOOLEAN, kanbus \in KanbusModes : CmdInit(target, kanbus)

SpecFetch == InitFetch /\ [][NextFetch]_vars

(***************************************************************************)
(* What the commands leave in the reports                                  *)
(***************************************************************************)

(* The records of the report of pillar p, as the commands parse them. *)
Records(p) == _parse_questions_from_report(docs[p])

(* Its records before the last command or edit. *)
RecordsBefore(p) == _parse_questions_from_report(before[p])

AnswerOf(entry) == _parse_field(entry.block, "Answer")

(* The last command was cmd and it returned normally. *)
Ran(cmd) == last.cmd = cmd /\ last.err = ""

(* C1: after apply-evidence has run over the reports, every record whose *)
(* Answer field is non-empty has Status answered, whatever its status    *)
(* was before and whether the evidence summary is empty or not.           *)
C1_AnswersDominate ==
  Ran("apply-evidence") =>
    \A p \in exists :
      \A k \in 1..Len(Records(p)) :
        AnswerOf(Records(p)[k]) # << >>
          => Records(p)[k].status = <<"answered">>

(* A record that had an answer and the status partial went through       *)
(* apply-evidence and is answered now.                                    *)
C1_Witness ==
  /\ Ran("apply-evidence")
  /\ \E p \in exists :
       \E k \in 1..Len(RecordsBefore(p)) :
         /\ AnswerOf(RecordsBefore(p)[k]) # << >>
         /\ RecordsBefore(p)[k].status = <<"partial">>
         /\ k <= Len(Records(p))
         /\ Records(p)[k].id = RecordsBefore(p)[k].id
         /\ Records(p)[k].status = <<"answered">>

AnswersAnswered(entries) ==
  \A k \in 1..Len(entries) :
    AnswerOf(entries[k]) # << >> => entries[k].status = <<"answered">>

(* C3: record-answer with a non-empty answer leaves the record answered, *)
(* for every status of the enumeration the caller passes; so a command   *)
(* record-answer or apply-evidence that starts with every answered-for   *)
(* record answered ends with every such record answered.                  *)
C3_NonEmptyAnswerIsAnswered ==
  /\ (/\ Ran("record-answer")
      /\ last.args.answer # << >>
      /\ InEnum(last.args.status, STATUS_VALUES))
       => \A p \in exists :
            \A k \in 1..Len(Records(p)) :
              Records(p)[k].id = last.args.qid
                => Records(p)[k].status = <<"answered">>
  /\ (/\ \/ Ran("apply-evidence")
         \/ Ran("record-answer") /\ InEnum(last.args.status, STATUS_VALUES)
      /\ \A p \in exists : AnswersAnswered(RecordsBefore(p)))
       => \A p \in exists : AnswersAnswered(Records(p))

(* Status and Confidence of every record are values of the enumerations. *)
EnumFields(entries) ==
  \A k \in 1..Len(entries) :
    /\ InEnum(entries[k].status, STATUS_VALUES)
    /\ InEnum(entries[k].confidence, CONFIDENCE_VALUES)

(* C4: record-answer with a status outside STATUS_VALUES or a confidence *)
(* outside CONFIDENCE_VALUES ends with an error and changes no report;   *)
(* so it never puts a value outside the enumerations into a record.      *)
C4_RejectsOutOfEnum ==
  /\ (/\ last.cmd = "record-answer"
      /\ ~(/\ InEnum(last.args.status, STATUS_VALUES)
           /\ InEnum(last.args.confidence, CONFIDENCE_VALUES)))
       => (last.err # "" /\ docs = before)
  /\ (/\ last.cmd = "record-answer"
      /\ \A p \in exists : EnumFields(RecordsBefore(p)))
       => \A p \in exists : EnumFields(Records(p))

(***************************************************************************)
(* What sync-kanbus requests                                               *)
(***************************************************************************)

(* The calls requested for record k of the report of pillar p (k = 0:    *)
(* for the epic of the pillar), in the order of their request.            *)
CallsFor(p, k) == SelectSeq(calls, LAMBDA c : c.pillar = p /\ c.entry = k)

(* How many of the calls cs are op with the argument arg. *)
Count(cs, op, arg) ==
  Cardinality({i \in 1..Len(cs) : cs[i].op = op /\ cs[i].arg = arg})

One(b) == IF b THEN 1 ELSE 0

CommentOf(entry) == <<"Answer", ":", NL>> \o AnswerOf(entry)

(* C5: for each record with a task in the map, one run of sync-kanbus    *)
(* requests, for that task: one comment with the answer iff the Answer   *)
(* is non-empty, one update to closed iff the Status is answered, one    *)
(* update to blocked iff the Status is needs_human, and nothing else; a  *)
(* record with no task in the map gets no call.                           *)
C5_RecordCalls ==
  last.cmd = "sync-kanbus" =>
    \A p \in exists :
      \A k \in 1..Len(Records(p)) :
        IF TaskOf(kmap, Records(p)[k].id) = << >>
        THEN CallsFor(p, k) = << >>
        ELSE /\ \A i \in 1..Len(CallsFor(p, k)) :
                  StartsWith(CallsFor(p, k)[i].id,
                             TaskOf(kmap, Records(p)[k].id))
             /\ Count(CallsFor(p, k), "comment", CommentOf(Records(p)[k]))
                  = One(AnswerOf(Records(p)[k]) # << >>)
             /\ Count(CallsFor(p, k), "update", "closed")
                  = One(Records(p)[k].status = <<"answered">>)
             /\ Count(CallsFor(p, k), "update", "blocked")
                  = One(Records(p)[k].status = <<"needs_human">>)
             /\ Len(CallsFor(p, k))
                  = One(AnswerOf(Records(p)[k]) # << >>)
                      + One(Records(p)[k].status
                              \in {<<"answered">>, <<"needs_human">>})

(* C6: whichever call fails during sync-kanbus, the run goes on: the     *)
(* comment and the update of every record with a task, and the close of  *)
(* every epic whose records are all answered, are requested in that run. *)
C6_FailureDoesNotAbort ==
  (last.cmd = "sync-kanbus" /\ mapped) =>
    \A p \in exists :
      /\ \A k \in 1..Len(Records(p)) :
           TaskOf(kmap, Records(p)[k].id) # << >> =>
             /\ AnswerOf(Records(p)[k]) # << >> =>
                  Count(CallsFor(p, k), "comment",
                        CommentOf(Records(p)[k])) >= 1
             /\ Records(p)[k].status = <<"answered">> =>
                  Count(CallsFor(p, k), "update", "closed") >= 1
             /\ Records(p)[k].status = <<"needs_human">> =>
                  Count(CallsFor(p, k), "update", "blocked") >= 1
      /\ (p \in DOMAIN kmap.epics /\ AllClosed(Records(p))) =>
           CallsFor(p, 0) # << >>

(* C7: in every run of sync-kanbus the epic of a pillar is requested     *)
(* closed, once, iff every record the report of the pillar holds in that *)
(* run has Status answered (a report without records counts), and the    *)
(* request comes after the requests for the records of that pillar.       *)
C7_EpicClosedIffAllAnswered ==
  (last.cmd = "sync-kanbus" /\ mapped) =>
    \A p \in exists \cap DOMAIN kmap.epics :
      /\ Count(CallsFor(p, 0), "update", "closed")
           = One(AllClosed(Records(p)))
      /\ Len(CallsFor(p, 0)) = One(AllClosed(Records(p)))
      /\ \A i, j \in 1..Len(calls) :
           (/\ calls[i].pillar = p /\ calls[i].entry = 0
            /\ calls[j].pillar = p /\ calls[j].entry > 0) => j < i

(***************************************************************************)
(* Reports with a record pasted in twice                                   *)
(***************************************************************************)

(* The commands over reports into which someone pasted the head of a     *)
(* record a second time: the span of the copy is a prefix of the span of *)
(* the record, and what str.replace does to the one it does to the other *)
NextDrift ==
  \/ \E p \in PillarSet : ExternalEdit(p, "paste")
  \/ \E qid \in QuestionArgs, flags \in Flags, raw_answer \in AnswerFiles :
       RecordAnswer(qid, flags[1], flags[2], raw_answer)
  \/ ApplyEvidence

SpecDrift == Init /\ [][NextDrift]_vars

(* What the clock read in the last command. *)
LastNow == <<"T">> \o Num2(steps)

(* When record-answer comes to the k-th entry of the report of p, the    *)
(* span it holds for it is nowhere in the text it rewrites.               *)
StaleAt(p, k) ==
  Find(AnswerEntries(before[p], SubSeq(RecordsBefore(p), 1, k - 1), 1,
                     last.args, LastNow),
       RecordsBefore(p)[k].block, 1) = 0

(* C8: when the span record-answer holds for the record it was asked to  *)
(* update matches no region of the text it rewrites, the record is still *)
(* found, by its id, and updated: the report then holds the record with  *)
(* the status and the answer passed.                                      *)
C8_StaleSpanRelocated ==
  Ran("record-answer") =>
    \A p \in exists :
      \A k \in 1..Len(RecordsBefore(p)) :
        (/\ InEnum(last.args.status, STATUS_VALUES)
         /\ InEnum(last.args.confidence, CONFIDENCE_VALUES)
         /\ RecordsBefore(p)[k].id = last.args.qid
         /\ FieldLines(RecordsBefore(p)[k].block, "Answer") # {}
         /\ StaleAt(p, k))
          => /\ k <= Len(Records(p))
             /\ Records(p)[k].id = last.args.qid
             /\ Records(p)[k].status = last.args.status
             /\ AnswerOf(Records(p)[k]) = last.args.answer

(***************************************************************************)
(* record-answer, its reads and writes apart                               *)
(***************************************************************************)

(* The first pillar from the k-th on that has a report, 0 if none. *)
FirstReport(k) ==
  LET First(ks) == IF ks = {} THEN 0 ELSE Min(ks)
  IN  First({j \in k..Len(PILLARS) : PILLARS[j] \in exists})

(* cmd_record_answer up to its first read of a report, line 601. *)
AnswerRead(qid, status, confidence, raw_answer) ==
  /\ steps < MaxSteps
  /\ held.cmd = "none"
  /\ \E args \in {[status |-> status, confidence |-> confidence, qid |-> qid,
                   answer |-> AnswerText(raw_answer)]} :
       \E k \in {FirstReport(1)} :
         IF k = 0
         THEN /\ last' = Outcome("record-answer",
                                 "WAIError: Question ID not found in reports",
                                 args, << >>)
              /\ before' = docs
              /\ steps' = steps + 1
              /\ UNCHANGED held
         ELSE /\ held' = [k |-> k, content |-> docs[PILLARS[k]],
                          cmd |-> "record-answer", args |-> args,
                          updated |-> FALSE]
              /\ UNCHANGED <<last, before, steps>>
  /\ UNCHANGED <<cached, cache, exists, docs, mapped, kmap, scanned, evidence,
                 issues, calls>>

(* From one read to the next, lines 602-616 and 601 again: the report    *)
(* read is parsed and rewritten in memory, written if that changed it,   *)
(* and the next report is read; after the last one the command ends.      *)
AnswerWrite ==
  /\ held.cmd = "record-answer"
  /\ \E p \in {PILLARS[held.k]} :
       \E doc \in {AnswerDoc(held.content, ReportBlocks(held.content),
                             held.args, Now)} :
         \E k \in {FirstReport(held.k + 1)} :
           /\ docs' = IF doc.err = "" /\ doc.text # held.content
                      THEN [docs EXCEPT ![p] = doc.text] ELSE docs
           /\ IF doc.err = "" /\ k # 0
              THEN /\ held' = [held EXCEPT !.k = k,
                                           !.content = docs[PILLARS[k]],
                                           !.updated = @ \/ doc.updated]
                   /\ UNCHANGED <<last, before, steps>>
              ELSE /\ held' = NoHeld
                   /\ last' = Outcome(
                        "record-answer",
                        IF doc.err # "" THEN doc.err
                        ELSE IF held.updated \/ doc.updated THEN ""
                        ELSE "WAIError: Question ID not found in reports",
                        held.args, << >>)
                   /\ before' = docs
                   /\ steps' = steps + 1
  /\ UNCHANGED <<cached, cache, exists, mapped, kmap, scanned, evidence,
                 issues, calls>>

NextInterleaved ==
  \/ \E qid \in QuestionArgs, flags \in Flags, raw_answer \in AnswerFiles :
       AnswerRead(qid, flags[1], flags[2], raw_answer)
  \/ AnswerWrite
  \/ \E p \in PillarSet, kind \in EditKinds : ExternalEdit(p, kind)

SpecInterleaved == Init /\ [][NextInterleaved]_vars

(* The write of record-answer to the report it holds leaves every other  *)
(* record of the report as the file had it just before the write.         *)
SiblingsSurvive ==
  (/\ held.cmd = "record-answer"
   /\ held' # held
   /\ InEnum(held.args.status, STATUS_VALUES)
   /\ InEnum(held.args.confidence, CONFIDENCE_VALUES)) =>
    \A k \in 1..Len(Records(PILLARS[held.k])) :
      Records(PILLARS[held.k])[k].id # held.args.qid =>
        \E j \in 1..Len(ReportBlocks(docs'[PILLARS[held.k]])) :
          ReportBlocks(docs'[PILLARS[held.k]])[j]
            = Records(PILLARS[held.k])[k].block

(* C9: an edit made from outside to another record of a report, between  *)
(* the read of the report by a command and the write that follows, is    *)
(* in the report after the write, as it was made.                         *)
C9_SiblingEditSurvives == [][SiblingsSurvive]_vars

(***************************************************************************)
(* The document index over documents of any shape                          *)
(***************************************************************************)

MaxLines == 4

(* The lines a document is made of: two record headings, a heading that  *)
(* is none ("## Notes"), a field line, a line with a colon that no space *)
(* follows, and the empty line.                                           *)
DocLines ==
  {<<"##", SP, "A", ":", SP, "t">>,
   <<"##", SP, "B", ":", SP, "u">>,
   <<"##", SP, "Notes">>,
   <<"Answer", ":", SP, "x">>,
   <<"see", SP, "https", ":", "x">>,
   << >>}

(* "\n".join(lines) *)
RECURSIVE JoinLines(_)
JoinLines(lines) ==
  IF lines = << >> THEN << >>
  ELSE IF Len(lines) = 1 THEN lines[1]
  ELSE lines[1] \o <<NL>> \o JoinLines(Tail(lines))

(* The documents of one to MaxLines lines, the last with or without its  *)
(* newline.                                                               *)
Documents ==
  UNION {{JoinLines(lines) \o end :
            lines \in [1..n -> DocLines], end \in {<<NL>>, << >>}} :
         n \in 1..MaxLines}

(* One report, of any shape, and nothing else. *)
InitDocuments ==
  /\ cached = FALSE
  /\ cache = << >>
  /\ exists = {PILLARS[1]}
  /\ \E content \in Documents :
       docs = [p \in PillarSet |-> IF p = PILLARS[1] THEN content ELSE << >>]
  /\ before = docs
  /\ mapped = FALSE
  /\ kmap = EmptyMap
  /\ scanned = FALSE
  /\ evidence = EmptyInventory
  /\ issues = << >>
  /\ calls = << >>
  /\ held = NoHeld
  /\ last = Outcome("none", "", NoArgs, << >>)
  /\ steps = 0

(* The rewrite of a report whose records did not change, lines 603-613   *)
(* with block_new = block: new_content.replace(block, block) for each.    *)
RECURSIVE RewriteUnchanged(_, _, _)
RewriteUnchanged(new_content, bs, k) ==
  IF k > Len(bs) THEN new_content
  ELSE RewriteUnchanged(Replace(new_content, bs[k], bs[k]), bs, k + 1)

(* The report is parsed, _parse_questions_from_report, and written back  *)
(* with no record changed; out is the spans of its records.               *)
IndexReport ==
  /\ steps < MaxSteps
  /\ last.cmd = "none"
  /\ \E p \in {PILLARS[1]} :
       \E bs \in {ReportBlocks(docs[p])} :
         IF SomeRaises(bs)
         THEN /\ last' = Outcome("index", "ValueError", NoArgs, << >>)
              /\ UNCHANGED docs
         ELSE /\ last' = Outcome("index", "", NoArgs, ReportSpans(docs[p]))
              /\ docs' = [docs EXCEPT ![p] = RewriteUnchanged(@, bs, 1)]
  /\ before' = docs
  /\ steps' = steps + 1
  /\ UNCHANGED <<cached, cache, exists, mapped, kmap, scanned, evidence,
                 issues, calls, held>>

NextDocuments == IndexReport

SpecDocuments == InitDocuments /\ [][NextDocuments]_vars

(* No two of the spans overlap. *)
SpansApart(spans) ==
  \A i, j \in 1..Len(spans) : i < j => spans[i].end <= spans[j].start

(* Each span begins at a record marker and ends just before the next     *)
(* record marker, the last at the end of the document.                    *)
SpansMarkerToMarker(content, spans) ==
  \A k \in 1..Len(spans) :
    /\ HeadingAt(content, spans[k].start)
    /\ spans[k].end = IF k < Len(spans) THEN spans[k + 1].start - 1
                      ELSE Len(content) + 1

(* The text before the first span, the spans, and a newline between two  *)
(* spans. *)
RECURSIVE SpansJoined(_, _, _)
SpansJoined(content, spans, k) ==
  IF k > Len(spans) THEN << >>
  ELSE SubSeq(content, spans[k].start, spans[k].end - 1)
         \o (IF k < Len(spans) THEN <<NL>> ELSE << >>)
         \o SpansJoined(content, spans, k + 1)

Rebuilt(content, spans) ==
  IF spans = << >> THEN content
  ELSE SubSeq(content, 1, spans[1].start - 1) \o SpansJoined(content, spans, 1)

(* C10: for any document, the spans of its records do not overlap, each  *)
(* runs from its record marker to just before the next marker or to the  *)
(* end of the document, the rewrite with no field changed gives the      *)
(* document back as it was, and so do leading text, spans and            *)
(* separators put together.                                               *)
C10_SpansCoverAndRoundTrip ==
  Ran("index") =>
    /\ SpansApart(last.out)
    /\ SpansMarkerToMarker(before[PILLARS[1]], last.out)
    /\ docs[PILLARS[1]] = before[PILLARS[1]]
    /\ Rebuilt(before[PILLARS[1]], last.out) = before[PILLARS[1]]

(***************************************************************************)
(* The field codec over blocks of any shape                                *)
(***************************************************************************)

MaxFieldLines == 3

(* The lines a block is made of: a heading, the Answer line as           *)
(* _question_block writes it (nothing after the colon), an Answer line   *)
(* with a value, one with more whitespace around the value, a Status     *)
(* line, and a line that is no field.                                     *)
BlockLines ==
  {<<"##", SP, "A", ":", SP, "t">>,
   <<"Answer", ":">>,
   <<"Answer", ":", SP, "x">>,
   <<"Answer", ":", SP, SP, "x", SP>>,
   <<"Status", ":", SP, "answered">>,
   <<"note">>}

Blocks ==
  UNION {{JoinLines(lines) \o end :
            lines \in [1..n -> BlockLines], end \in {<<NL>>, << >>}} :
         n \in 1..MaxFieldLines}

(* The fields asked for (no block has an Evidence line) and the values   *)
(* given.                                                                 *)
FieldNames == {"Answer", "Status", "Evidence"}
FieldValues == {<< >>, <<"y">>, <<"a", BSN, "b">>}

(* One block, held as the text of the first report, and nothing else. *)
InitBlocks ==
  /\ cached = FALSE
  /\ cache = << >>
  /\ exists = {PILLARS[1]}
  /\ \E block \in Blocks :
       docs = [p \in PillarSet |-> IF p = PILLARS[1] THEN block ELSE << >>]
  /\ before = docs
  /\ mapped = FALSE
  /\ kmap = EmptyMap
  /\ scanned = FALSE
  /\ evidence = EmptyInventory
  /\ issues = << >>
  /\ calls = << >>
  /\ held = NoHeld
  /\ last = Outcome("none", "", NoArgs, << >>)
  /\ steps = 0

(* _replace_field(block, field, value); out names the field, the answer  *)
(* argument holds the value.                                              *)
ReplaceField(field, value) ==
  /\ steps < MaxSteps
  /\ last.cmd = "none"
  /\ docs' = [docs EXCEPT ![PILLARS[1]] = _replace_field(@, field, value)]
  /\ last' = Outcome("replace-field", "", [NoArgs EXCEPT !.answer = value],
                     <<field>>)
  /\ before' = docs
  /\ steps' = steps + 1
  /\ UNCHANGED <<cached, cache, exists, mapped, kmap, scanned, evidence,
                 issues, calls, held>>

(* _replace_field(block, field, _parse_field(block, field)) *)
RewriteField(field) ==
  /\ steps < MaxSteps
  /\ last.cmd = "none"
  /\ \E value \in {_parse_field(docs[PILLARS[1]], field)} :
       /\ docs' = [docs EXCEPT ![PILLARS[1]] = _replace_field(@, field, value)]
       /\ last' = Outcome("rewrite-field", "",
                          [NoArgs EXCEPT !.answer = value], <<field>>)
  /\ before' = docs
  /\ steps' = steps + 1
  /\ UNCHANGED <<cached, cache, exists, mapped, kmap, scanned, evidence,
                 issues, calls, held>>

NextFields ==
  \/ \E field \in FieldNames, value \in FieldValues : ReplaceField(field, value)
  \/ \E field \in FieldNames : RewriteField(field)

SpecFields == InitBlocks /\ [][NextFields]_vars

(* C11: for every block and every field it has, the block with the field *)
(* replaced by the value parsed from it is the block, byte for byte, an  *)
(* empty value included.                                                  *)
C11_ReplaceOwnValueIsIdentity ==
  (Ran("rewrite-field")
     /\ FieldLines(before[PILLARS[1]], last.out[1]) # {})
    => docs[PILLARS[1]] = before[PILLARS[1]]

(* text.split("\n") *)
RECURSIVE SplitLines(_)
SplitLines(s) ==
  IF Find(s, <<NL>>, 1) = 0 THEN <<s>>
  ELSE <<SubSeq(s, 1, Find(s, <<NL>>, 1) - 1)>>
         \o SplitLines(SubSeq(s, Find(s, <<NL>>, 1) + 1, Len(s)))

(* The lines of new are those of old, but for at most one, and that one  *)
(* begins with "<field>:" in old.                                         *)
OneFieldLineChanged(old, new, field) ==
  /\ Len(new) = Len(old)
  /\ \A i, j \in 1..Len(old) :
       (new[i] # old[i] /\ new[j] # old[j]) => i = j
  /\ \A i \in 1..Len(old) :
       new[i] # old[i] => StartsWith(old[i], <<field, ":">>)

(* C12: replacing a field in a block changes at most the one line that   *)
(* begins with the field's name and a colon, every other line stays as   *)
(* it was and where it was; a block with no such line comes back         *)
(* unchanged.                                                             *)
C12_ReplaceTouchesOneLine ==
  Ran("replace-field") =>
    IF FieldLines(before[PILLARS[1]], last.out[1]) = {}
    THEN docs[PILLARS[1]] = before[PILLARS[1]]
    ELSE OneFieldLineChanged(SplitLines(before[PILLARS[1]]),
                             SplitLines(docs[PILLARS[1]]), last.out[1])

(***************************************************************************)
(* What record-answer and apply-evidence do to the fields                  *)
(***************************************************************************)

LastUpdatedOf(entry) == _parse_field(entry.block, "Last Updated")

(* The arguments of the last record-answer are in the enumerations. *)
EnumArgs ==
  /\ InEnum(last.args.status, STATUS_VALUES)
  /\ InEnum(last.args.confidence, CONFIDENCE_VALUES)

(* C13: record-answer for an existing question id, with a status and a   *)
(* confidence of the enumerations, leaves that record with the Answer    *)
(* the whitespace-collapsed answer file, the Status and the Confidence   *)
(* given, and the Last Updated of that run.                               *)
C13_RecordAnswerSetsFields ==
  (Ran("record-answer") /\ EnumArgs) =>
    \A p \in exists :
      \A k \in 1..Len(Records(p)) :
        Records(p)[k].id = last.args.qid =>
          /\ AnswerOf(Records(p)[k]) = last.args.answer
          /\ Records(p)[k].status = last.args.status
          /\ Records(p)[k].confidence = last.args.confidence
          /\ LastUpdatedOf(Records(p)[k]) = LastNow

(* The text with the block of every entry of the id qid taken out. *)
RECURSIVE Masked(_, _, _, _)
Masked(content, entries, k, qid) ==
  IF k > Len(entries) THEN content
  ELSE Masked(IF entries[k].id = qid
              THEN Replace(content, entries[k].block, <<"@">>)
              ELSE content,
              entries, k + 1, qid)

(* The fields of a record that record-answer has no business with. *)
OtherFields(entry) ==
  <<_parse_field(entry.block, "Evidence"),
    _parse_field(entry.block, "Human Questions"),
    _parse_field(entry.block, "Question"),
    _parse_field(entry.block, "Kanbus Task")>>

(* C14: record-answer for a question id changes the records of that id   *)
(* and nothing else: the records of every other id in every report, and  *)
(* the text around the records, are as before, byte for byte, and so are *)
(* the Evidence, Human Questions, Question and Kanbus Task of the record *)
(* itself.                                                                *)
C14_RecordAnswerIsSurgical ==
  last.cmd = "record-answer" =>
    \A p \in PillarSet :
      /\ Masked(docs[p], Records(p), 1, last.args.qid)
           = Masked(before[p], RecordsBefore(p), 1, last.args.qid)
      /\ Len(Records(p)) = Len(RecordsBefore(p))
      /\ \A k \in 1..Len(Records(p)) :
           /\ Records(p)[k].id = RecordsBefore(p)[k].id
           /\ OtherFields(Records(p)[k]) = OtherFields(RecordsBefore(p)[k])

(***************************************************************************)
(* apply-evidence over reports that evidence was applied to before         *)
(***************************************************************************)

(* init ran with Kanbus up and the evidence found0 was applied. *)
Applied(questions, found0) ==
  \E run \in {InitRun(questions, << >>, "up", InitTime)} :
    \E done \in {EvidencePillars(run.docs, PillarSet, 1, Summary(found0))} :
      /\ cached = TRUE
      /\ cache = questions
      /\ exists = PillarSet
      /\ docs = done.docs
      /\ mapped = TRUE
      /\ kmap = run.kmap
      /\ issues = run.issues

(* The assessment after init, scan and apply-evidence, and maybe another *)
(* scan that found something else.                                        *)
InitEvidence ==
  /\ \E questions \in Inventories, found0 \in Targets, found \in Targets :
       /\ Applied(questions, found0)
       /\ scanned = TRUE
       /\ evidence = found
  /\ before = docs
  /\ calls = << >>
  /\ held = NoHeld
  /\ last = Outcome("none", "", NoArgs, << >>)
  /\ steps = 0

NextEvidence ==
  \/ \E target \in BOOLEAN, found \in Targets : Scan(target, found)
  \/ ApplyEvidence
  \/ \E qid \in QuestionArgs, flags \in Flags, raw_answer \in AnswerFiles :
       RecordAnswer(qid, flags[1], flags[2], raw_answer)
  \/ \E p \in PillarSet, kind \in {"answer", "note"} : ExternalEdit(p, kind)

SpecEvidence == InitEvidence /\ [][NextEvidence]_vars

EvidenceOf(entry) == _parse_field(entry.block, "Evidence")

(* C15: after apply-evidence, the Evidence field of every record of      *)
(* every report is the current evidence summary, the empty text when     *)
(* there is none, whatever the field held before.                         *)
C15_EvidenceOverwritten ==
  Ran("apply-evidence") =>
    \A p \in exists :
      \A k \in 1..Len(Records(p)) :
        EvidenceOf(Records(p)[k]) = Summary(evidence)

(* apply-evidence ran over a record whose Evidence held something else   *)
(* than the current summary.                                              *)
C15_Witness ==
  /\ Ran("apply-evidence")
  /\ \E p \in exists :
       \E k \in 1..Len(RecordsBefore(p)) :
         /\ EvidenceOf(RecordsBefore(p)[k]) # << >>
         /\ EvidenceOf(RecordsBefore(p)[k]) # Summary(evidence)
         /\ k <= Len(Records(p))
         /\ EvidenceOf(Records(p)[k]) = Summary(evidence)

HumanQuestionsOf(entry) == _parse_field(entry.block, "Human Questions")

(* The text begins with the words of the generated prompt. *)
IsPrompt(text) ==
  Len(text) >= Len(HQPrompt) /\ SubSeq(text, 1, Len(HQPrompt)) = HQPrompt

(* C16: apply-evidence changes the Human Questions field of a record     *)
(* only to the prompt made of the record's question text, and only when  *)
(* the record does not end answered and the field was empty or held a    *)
(* generated prompt: a note written by a person stays, and so does the   *)
(* field of a record that ends answered.                                  *)
C16_PromptOnlyWhenOpen ==
  Ran("apply-evidence") =>
    \A p \in exists :
      /\ Len(Records(p)) = Len(RecordsBefore(p))
      /\ \A k \in 1..Len(Records(p)) :
           HumanQuestionsOf(Records(p)[k])
               # HumanQuestionsOf(RecordsBefore(p)[k])
             => /\ Records(p)[k].status # <<"answered">>
                /\ \/ HumanQuestionsOf(RecordsBefore(p)[k]) = << >>
                   \/ IsPrompt(HumanQuestionsOf(RecordsBefore(p)[k]))
                /\ HumanQuestionsOf(Records(p)[k])
                     = HQPrompt \o <<SP>> \o Records(p)[k].question

(* apply-evidence ran over a record that held a person's note and did    *)
(* not end answered, and the note is still there.                         *)
C16_Witness ==
  /\ Ran("apply-evidence")
  /\ \E p \in exists :
       \E k \in 1..Len(Records(p)) :
         /\ k <= Len(RecordsBefore(p))
         /\ HumanQuestionsOf(RecordsBefore(p)[k]) = <<"ask", SP, "Bob">>
         /\ Records(p)[k].status # <<"answered">>
         /\ HumanQuestionsOf(Records(p)[k]) = <<"ask", SP, "Bob">>

(* The answer, status and confidence of a record. *)
Mutable(entry) == <<AnswerOf(entry), entry.status, entry.confidence>>

(* C17: a command that changes the answer, the status or the confidence  *)
(* of a record (record-answer, and apply-evidence when it changes the    *)
(* status) gives the record the Last Updated of that run.                 *)
C17_MutationRefreshesLastUpdated ==
  (Ran("record-answer") \/ Ran("apply-evidence")) =>
    \A p \in exists :
      \A k \in 1..Len(Records(p)) :
        (/\ k <= Len(RecordsBefore(p))
         /\ Records(p)[k].id = RecordsBefore(p)[k].id
         /\ Mutable(Records(p)[k]) # Mutable(RecordsBefore(p)[k]))
          => LastUpdatedOf(Records(p)[k]) = LastNow

(***************************************************************************)
(* Identity resolution over snapshots of any content                       *)
(***************************************************************************)

MaxIssues == 2

(* Another full id that begins with the short id of issue n. *)
AltId(n) == ShortId(n) \o <<"g", "-", "0", "-", "0", "-", "0", "-", "0">>

(* The issues a snapshot can list: three ids, two of them with the same  *)
(* short id, two titles, with or without a parent, created at one of two *)
(* times.                                                                 *)
IssuePool ==
  {[title |-> title, id |-> id, created_at |-> at, parent |-> parent] :
     id \in {FullId(1), AltId(1), FullId(2)},
     title \in {<<"t1">>, <<"t2">>},
     parent \in {<< >>, FullId(9)},
     at \in 1..2}

Snapshots == UNION {[1..n -> IssuePool] : n \in 0..MaxIssues}

(* What is asked for: a short id with entries in the pool, a full id, a  *)
(* short id with none; with or without a title and a parent.              *)
ResolveIds == {ShortId(1), FullId(1), ShortId(3)}
ResolveTitles == {<< >>, <<"t1">>}
ResolveParents == {<< >>, FullId(9)}

(* Kanbus holds the issues of one snapshot; nothing else is there. *)
InitResolve ==
  /\ cached = FALSE
  /\ cache = << >>
  /\ exists = {}
  /\ docs = [p \in PillarSet |-> << >>]
  /\ before = docs
  /\ mapped = FALSE
  /\ kmap = EmptyMap
  /\ scanned = FALSE
  /\ evidence = EmptyInventory
  /\ issues \in Snapshots
  /\ calls = << >>
  /\ held = NoHeld
  /\ last = Outcome("none", "", NoArgs, << >>)
  /\ steps = 0

(* _resolve_full_id(short_id, title, parent, issues); out is what was    *)
(* asked and what came back.                                              *)
Resolve(short_id, title, parent) ==
  /\ steps < MaxSteps
  /\ last.cmd = "none"
  /\ last' = Outcome("resolve", "", NoArgs,
                     <<short_id, title, parent,
                       _resolve_full_id(short_id, title, parent, issues)>>)
  /\ before' = docs
  /\ steps' = steps + 1
  /\ UNCHANGED <<cached, cache, exists, docs, mapped, kmap, scanned, evidence,
                 issues, calls, held>>

NextResolve ==
  \E short_id \in ResolveIds, title \in ResolveTitles,
     parent \in ResolveParents : Resolve(short_id, title, parent)

SpecResolve == InitResolve /\ [][NextResolve]_vars

(* The entries of the snapshot whose id begins with short_id and whose   *)
(* title and parent are the ones given, each looked at only when given.   *)
Matching(short_id, title, parent) ==
  {k \in 1..Len(issues) :
     /\ StartsWith(issues[k].id, short_id)
     /\ (title = << >> \/ issues[k].title = title)
     /\ (parent = << >> \/ issues[k].parent = parent)}

(* C18: what identity resolution returns for a snapshot: the id given    *)
(* when it is a full id already or when no entry matches; otherwise the  *)
(* id of a matching entry that no matching entry was created after (the  *)
(* one entry, when one matches).                                          *)
C18_ResolveByPrefixLatest ==
  Ran("resolve") =>
    LET short_id == last.out[1]
        found == Matching(last.out[1], last.out[2], last.out[3])
        result == last.out[4]
    IN  IF _is_full_id(short_id) \/ found = {}
        THEN result = short_id
        ELSE \E k \in found :
               /\ result = issues[k].id
               /\ \A j \in found :
                    issues[j].created_at <= issues[k].created_at

(* Two entries match a short id, the one listed first was created last,  *)
(* and its id came back.                                                  *)
C18_Witness ==
  /\ Ran("resolve")
  /\ ~_is_full_id(last.out[1])
  /\ Matching(last.out[1], last.out[2], last.out[3]) = {1, 2}
  /\ issues[1].created_at > issues[2].created_at
  /\ issues[1].id # issues[2].id
  /\ last.out[4] = issues[1].id

(***************************************************************************)
(* sync-kanbus and how Kanbus answers                                      *)
(***************************************************************************)

(* How Kanbus answered the last sync-kanbus. *)
SyncAnswer == last.out[1]

(* The calls asked for are the ones the reports call for, each with the  *)
(* id the map holds for its record or epic.                               *)
AllRequestedByMapId ==
  \A p \in exists :
    /\ \A k \in 1..Len(Records(p)) :
         TaskOf(kmap, Records(p)[k].id) # << >> =>
           /\ \A i \in 1..Len(CallsFor(p, k)) :
                CallsFor(p, k)[i].id = TaskOf(kmap, Records(p)[k].id)
           /\ Len(CallsFor(p, k))
                = One(AnswerOf(Records(p)[k]) # << >>)
                    + One(Records(p)[k].status
                            \in {<<"answered">>, <<"needs_human">>})
    /\ p \in DOMAIN kmap.epics =>
         /\ \A i \in 1..Len(CallsFor(p, 0)) :
              CallsFor(p, 0)[i].id = kmap.epics[p]
         /\ Len(CallsFor(p, 0)) = One(AllClosed(Records(p)))

(* Every id of the map is a short id, as "kanbus create" printed it. *)
MapUnresolved ==
  /\ ~_is_full_id(kmap.initiative)
  /\ \A p \in DOMAIN kmap.epics : ~_is_full_id(kmap.epics[p])
  /\ \A q \in DOMAIN kmap.tasks : ~_is_full_id(kmap.tasks[q])

(* C19: when the snapshot of Kanbus cannot be read, resolution gives the *)
(* id back as it got it and raises nothing: init ends normally with the  *)
(* short ids in the map, and a sync-kanbus in which no comment or update *)
(* fails ends normally, having asked for every call with the id of the   *)
(* map, unresolved.                                                       *)
C19_SnapshotFailureTolerated ==
  /\ (last.cmd = "init" /\ last.out = <<"nosnapshot">>) =>
       (last.err = "" /\ mapped /\ MapUnresolved)
  /\ (/\ last.cmd = "sync-kanbus"
      /\ mapped
      /\ ~SyncAnswer.snapshot
      /\ SyncAnswer.failure.at = 0) =>
       (last.err = "" /\ AllRequestedByMapId)

(* sync-kanbus ran without a snapshot over a map of short ids, ended     *)
(* normally and asked for a call, with the short id of the map.           *)
C19_Witness ==
  /\ Ran("sync-kanbus")
  /\ mapped
  /\ ~SyncAnswer.snapshot
  /\ MapUnresolved
  /\ calls # << >>
  /\ ~_is_full_id(calls[1].id)

(* The call of the last sync-kanbus that Kanbus failed, if it was asked  *)
(* for.                                                                   *)
FailedCall == calls[SyncAnswer.failure.at]

(* C20: an update that Kanbus fails with "no updates requested" counts   *)
(* as done: sync-kanbus goes on with the next call and ends normally;    *)
(* an update that fails in another way ends it with the error.            *)
C20_NoUpdatesRequestedIsSuccess ==
  (/\ last.cmd = "sync-kanbus"
   /\ mapped
   /\ SyncAnswer.failure.at \in 1..Len(calls)
   /\ FailedCall.op = "update") =>
    IF SyncAnswer.failure.kind = "no updates requested"
    THEN /\ last.err = ""
         /\ \A p \in exists :
              /\ \A k \in 1..Len(Records(p)) :
                   TaskOf(kmap, Records(p)[k].id) # << >> =>
                     Len(CallsFor(p, k))
                       = One(AnswerOf(Records(p)[k]) # << >>)
                           + One(Records(p)[k].status
                                   \in {<<"answered">>, <<"needs_human">>})
              /\ p \in DOMAIN kmap.epics =>
                   Len(CallsFor(p, 0)) = One(AllClosed(Records(p)))
    ELSE /\ last.err = "WAIError: kanbus"
         /\ Len(calls) = SyncAnswer.failure.at

(* Kanbus failed an update with "no updates requested", and calls were   *)
(* asked for after it.                                                    *)
C20_Witness ==
  /\ Ran("sync-kanbus")
  /\ mapped
  /\ SyncAnswer.failure.kind = "no updates requested"
  /\ SyncAnswer.failure.at \in 1..(Len(calls) - 1)
  /\ FailedCall.op = "update"

(* init ran with Kanbus up and record-answer recorded an answer for the *)
(* first question.                                                        *)
Answered(questions, status, raw_answer) ==
  \E run \in {InitRun(questions, << >>, "up", InitTime)} :
    \E done \in {AnswerPillars(run.docs, PillarSet, 1, FALSE,
                               [status |-> status, confidence |-> <<"medium">>,
                                qid |-> <<"OPS-1">>,
                                answer |-> AnswerText(raw_answer)],
                               InitTime)} :
      /\ cached = TRUE
      /\ cache = questions
      /\ exists = PillarSet
      /\ docs = done.docs
      /\ mapped = TRUE
      /\ kmap = run.kmap
      /\ issues = run.issues

(* The assessment after init and record-answer and, maybe, scan.  An    *)
(* answer may be the one letter that apply-evidence takes for a badly    *)
(* decoded space.                                                         *)
InitAnswered ==
  /\ \E questions \in Inventories,
        raw_answer \in AnswerFiles \cup {<<ACIRC, NL>>},
        status \in {<<"answered">>, <<"needs_human">>} :
       Answered(questions, status, raw_answer)
  /\ \/ scanned = FALSE /\ evidence = EmptyInventory
     \/ \E found \in Targets : scanned = TRUE /\ evidence = found
  /\ before = docs
  /\ calls = << >>
  /\ held = NoHeld
  /\ last = Outcome("none", "", NoArgs, << >>)
  /\ steps = 0

NextAnswered ==
  \/ \E snapshot \in BOOLEAN : Sync(snapshot)
  \/ ApplyEvidence
  \/ \E qid \in QuestionArgs :
       RecordAnswer(qid, <<"answered">>, <<"medium">>,
                    <<"We", SP, "do", SP, "Z", NL>>)
  \/ \E p \in PillarSet, kind \in {"answer", "drift"} : ExternalEdit(p, kind)

SpecAnswered == InitAnswered /\ [][NextAnswered]_vars

(* sync-kanbus ran, then ran again, and Kanbus answered both runs alike. *)
SyncedAgain ==
  /\ last.cmd = "sync-kanbus"
  /\ last'.cmd = "sync-kanbus"
  /\ mapped
  /\ last'.out[1].snapshot = SyncAnswer.snapshot
  /\ last'.out[1].failure = SyncAnswer.failure

(* C21: a second sync-kanbus over the same reports, map and snapshot     *)
(* asks for the calls of the first, the same in the same order: nothing  *)
(* is remembered as done, and neither the reports nor the map change.     *)
C21_SyncRepeats ==
  [][SyncedAgain =>
       (calls' = calls /\ docs' = docs /\ kmap' = kmap /\ mapped' = mapped)]_vars

(* sync-kanbus ran right after a sync-kanbus and asked for a comment and *)
(* for an update.                                                         *)
C21_Witness ==
  /\ Ran("sync-kanbus")
  /\ mapped
  /\ SyncAnswer.after = "sync-kanbus"
  /\ \E i, j \in 1..Len(calls) :
       calls[i].op = "comment" /\ calls[j].op = "update"

(***************************************************************************)
(* validate over reports of any shape                                      *)
(***************************************************************************)

(* The lines of a report that validate reads: a record heading, a        *)
(* heading that is none, Status and Confidence lines in and out of their *)
(* enumerations, an empty Status and the empty line.                      *)
ValidateLines ==
  {<<"##", SP, "A", ":", SP, "t">>,
   <<"##", SP, "Notes">>,
   <<"Status", ":", SP, "answered">>,
   <<"Status", ":", SP, "done">>,
   <<"Status", ":">>,
   <<"Confidence", ":", SP, "certain">>,
   << >>}

(* The first report is of any shape, the second holds no record or is    *)
(* missing.                                                               *)
InitValidate ==
  /\ cached = FALSE
  /\ cache = << >>
  /\ exists \in {{PILLARS[1]}, PillarSet}
  /\ \E n \in 1..MaxLines :
       \E lines \in [1..n -> ValidateLines], end \in {<<NL>>, << >>} :
         docs = [p \in PillarSet |->
                   IF p = PILLARS[1] THEN JoinLines(lines) \o end ELSE << >>]
  /\ before = docs
  /\ mapped = FALSE
  /\ kmap = EmptyMap
  /\ scanned = FALSE
  /\ evidence = EmptyInventory
  /\ issues = << >>
  /\ calls = << >>
  /\ held = NoHeld
  /\ last = Outcome("none", "", NoArgs, << >>)
  /\ steps = 0

SpecValidate == InitValidate /\ [][Validate]_vars

(* The violations the reports hold: a missing report, a record whose id  *)
(* an earlier record of its report has, a record with a non-empty Status *)
(* or Confidence outside its enumeration.  The records of a report are   *)
(* its blocks with a heading "## id: title".                              *)
ListedViolations ==
  LET Of(p, rs) ==
        {<<p, k, "duplicate">> :
           k \in {n \in 1..Len(rs) : \E j \in 1..(n - 1) : rs[j].id = rs[n].id}}
          \cup {<<p, k, "status">> :
                  k \in {n \in 1..Len(rs) :
                           /\ rs[n].status # << >>
                           /\ rs[n].status \notin {<<v>> : v \in STATUS_VALUES}}}
          \cup {<<p, k, "confidence">> :
                  k \in {n \in 1..Len(rs) :
                           /\ rs[n].confidence # << >>
                           /\ rs[n].confidence
                                \notin {<<v>> : v \in CONFIDENCE_VALUES}}}
  IN  {<<p, 0, "missing">> : p \in PillarSet \ exists}
        \cup UNION {Of(p, Entries(SelectSeq(ReportBlocks(docs[p]),
                                            HeaderSplits))) : p \in exists}

(* C22: validate fails exactly when a report is missing, two records of  *)
(* a report share an id, or a record has a non-empty Status or           *)
(* Confidence outside its enumeration; it prints one error for each of   *)
(* these and changes no report.                                           *)
C22_ValidateExact ==
  last.cmd = "validate" =>
    /\ docs = before
    /\ (last.err = "") <=> (ListedViolations = {})
    /\ Len(last.out) = Cardinality(ListedViolations)

(* C23: the reports that init writes from an inventory that fetch saved  *)
(* hold no two records with the same id in one report.                    *)
C23_InitIdsDistinct ==
  (last.cmd = "init" /\ exists # {}) =>
    \A p \in exists :
      \A j, k \in 1..Len(Records(p)) :
        Records(p)[j].id = Records(p)[k].id => j = k

(* Every entry of the map is in the map after the step, as it was. *)
MapKept ==
  /\ mapped'
  /\ kmap'.initiative = kmap.initiative
  /\ \A p \in DOMAIN kmap.epics :
       p \in DOMAIN kmap'.epics /\ kmap'.epics[p] = kmap.epics[p]
  /\ \A q \in DOMAIN kmap.tasks :
       q \in DOMAIN kmap'.tasks /\ kmap'.tasks[q] = kmap.tasks[q]

(* C24: once init has written the Kanbus map of an assessment, no        *)
(* command, init run again included, replaces or removes an entry of it.  *)
C24_MapWrittenOnce == [][mapped => MapKept]_vars

(* Every record of before the step is a record after it, and its Answer  *)
(* is the same unless the step was record-answer.                         *)
RecordsKept ==
  \A p \in exists :
    \A k \in 1..Len(Records(p)) :
      \E j \in 1..Len(_parse_questions_from_report(docs'[p])) :
        /\ _parse_questions_from_report(docs'[p])[j].id = Records(p)[k].id
        /\ \/ last'.cmd = "record-answer"
           \/ AnswerOf(_parse_questions_from_report(docs'[p])[j])
                = AnswerOf(Records(p)[k])

(* C25: a record that init wrote is a record of its report after every  *)
(* command, with the answer it had unless record-answer replaced it.      *)
C25_RecordsNeverDeleted == [][last'.cmd # "edit" => RecordsKept]_vars

(* "## <id>: <title>": one space after the marker, none before the colon *)
(* and one after it.                                                      *)
Canonical(block) ==
  LET Colon(c) ==
        /\ c > 3
        /\ block[c - 1] # SP
        /\ c < Len(block)
        /\ block[c + 1] = SP
        /\ (c + 2 <= Len(block) => block[c + 2] # SP)
  IN  /\ Len(block) >= 3
      /\ block[1] = "##"
      /\ block[2] = SP
      /\ block[3] # SP
      /\ Colon(FirstColon(block, 1))

(* C26: after apply-evidence every record, and after record-answer every *)
(* record of the id given, has its heading in the form "## <id>:         *)
(* <title>", whatever the spaces of the heading were before.              *)
C26_HeadingCanonical ==
  (Ran("apply-evidence") \/ Ran("record-answer")) =>
    \A p \in exists :
      \A k \in 1..Len(Records(p)) :
        (Ran("apply-evidence") \/ Records(p)[k].id = last.args.qid)
          => Canonical(Records(p)[k].block)

(* C27: apply-evidence run directly after apply-evidence, over the same  *)
(* evidence, leaves every report as the first run left it.                *)
C27_ApplyEvidenceIdempotent ==
  [][(Ran("apply-evidence") /\ last'.cmd = "apply-evidence")
       => docs' = docs]_vars

(* No report held a record of the id given to the last command. *)
UnknownId ==
  \A p \in exists :
    \A k \in 1..Len(RecordsBefore(p)) : RecordsBefore(p)[k].id # last.args.qid

(* C28: record-answer for an id that no record of any report has ends    *)
(* with "Question ID not found in reports" and leaves every report as it *)
(* was.                                                                   *)
C28_UnknownIdRejected ==
  (last.cmd = "record-answer" /\ UnknownId) =>
    /\ last.err = "WAIError: Question ID not found in reports"
    /\ docs = before

(* record-answer ran over reports with records, none of the id given. *)
C28_Witness ==
  /\ last.cmd = "record-answer"
  /\ UnknownId
  /\ \E p \in exists : Len(RecordsBefore(p)) > 0
  /\ last.err = "WAIError: Question ID not found in reports"

====
